---------------------------- MODULE Spec2Model ----------------------------
(***************************************************************************)
(* A model of js4j, a JavaScript client of a py4j gateway.                 *)
(*                                                                         *)
(* The module holds state machines over disjoint groups of variables:      *)
(*   - the codec's string escaping (escapeNewLines / unescapeNewLines),    *)
(*   - one GatewayConnection with its RequestQueue,                        *)
(*   - the ConnectionPool with its callers,                                *)
(*   - one CallbackConnection of the CallbackServer with its ProxyPool,    *)
(*   - the CallbackServer and its port,                                    *)
(*   - one proxy of a Java reference, and one JVMView,                     *)
(*   - the calls of the gateway client and the encoding of arguments,      *)
(*   - a RequestQueue with tasks of any kind.                              *)
(* Each has its own specifications (SpecEscape, SpecConn, SpecPool, ...);  *)
(* the variables of the other machines rest.                               *)
(*                                                                         *)
(* Text is a sequence of one-character strings.                            *)
(***************************************************************************)
EXTENDS Integers, Sequences, FiniteSets, TLC

VARIABLES
    \* ---- codec: escapeNewLines / unescapeNewLines
    escIn,          \* the string handed to escapeNewLines
    escMid,         \* escapeNewLines(escIn)
    escOut,         \* unescapeNewLines(escMid)
    escPc           \* "input" | "escaped" | "done"

escVars == <<escIn, escMid, escOut, escPc>>

VARIABLES
    \* ---- one GatewayConnection, its RequestQueue, its socket and its peer
    authToken,      \* options.authToken is set
    connPc,         \* connect(): "new" | "connecting" | "authing" | "ready" | "failed"
    authPc,         \* _authenticate(): "none" | "await" | "gotline" | "goterr" | "done"
    socket,         \* this._socket: "null" | "sock"
    sock,           \* the net.Socket: "unopened" | "connecting" | "open" |
                    \*   "errored" ('error' and 'close' to be emitted) |
                    \*   "closing" ('close' to be emitted) | "closed"
    closed,         \* this._closed
    buffer,         \* this._buffer
    readResolve,    \* this._readResolve: the command whose read it settles, or Null
    readReject,     \* this._readReject
    queue,          \* RequestQueue._queue: the commands not yet started
    running,        \* RequestQueue._running
    flushPc,        \* _flush(): "idle" | "awaiting" (a task) | "resume" (task settled)
    cmdState,       \* per command: "uncalled" | "queued" | "inflight" | "resolved" | "rejected"
    cmdResult,      \* per command: the line its read resolved with
    cmdErr,         \* per command: the error it rejected with: "none" |
                    \*   "network" (Js4JNetworkError) | "type" (TypeError)
    nCalled,        \* number of sendCommand calls made
    written,        \* the commands written to the socket, in order
    writeCb,        \* the writes whose completion callback has not run yet
    received        \* every byte the peer has delivered, in order

connVars == <<authToken, connPc, authPc, socket, sock, closed, buffer,
              readResolve, readReject, queue, running, flushPc, cmdState,
              cmdResult, cmdErr, nCalled, written, writeCb, received>>

VARIABLES
    \* ---- the ConnectionPool, its connections and its callers
    maxConnections, \* this._maxConnections
    idle,           \* this._idle: the connections available, last in first out
    active,         \* this._active
    waiters,        \* this._waiters: the parked callers, oldest first
    conns,          \* per connection: "unmade" | "connecting" | "live" | "dead"
    nConns,         \* number of connections made by acquire()
    pc,             \* per caller: "out" | "connecting" | "parked" | "holding"
    held,           \* per caller: the connection it holds or is opening
    via,            \* per holder: how it got the connection: "idle" | "new" | "handover"
    nAcquires,      \* number of acquire() calls made
    parkedAt,       \* per caller: the number of the acquire() call that parked it
    lastOutcome,    \* how the withConnection call that settled last ended:
                    \*   "none" | "resolved" | "rejected" | "acquireFailed"
    atCloseAll,     \* the connections that were handed out when closeAll() ran
                    \*   and have not been closed since
    opWrites        \* per caller: the number of times the command of its
                    \*   operation was handed to socket.write

poolHist == <<lastOutcome, atCloseAll>>
poolVars == <<maxConnections, idle, active, waiters, conns, nConns, pc, held,
              via, nAcquires, parkedAt, lastOutcome, atCloseAll, opWrites>>

VARIABLES
    \* ---- the ProxyPool, one CallbackConnection and the host behind it
    cbBuffer,       \* CallbackConnection._buffer
    cbPool,         \* ProxyPool._pool: the object registered under each id
    cbCounter,      \* ProxyPool._counter
    cbLog,          \* what the connection did, in order: <<"handle", i, lines>>
                    \*   when _handleCommand began on command number i,
                    \*   <<"invoke", i, <<id, method, args>>>> for each call of
                    \*   a method, <<"reply", i, text>> for each socket.write,
                    \*   and <<"register", id, obj>> for each registration
    cbPending,      \* the commands whose method returned a promise not yet settled
    cbHandled,      \* number of _handleCommand calls made
    cbSocket,       \* the connection's socket: "open" | "destroyed"
    hostToSend,     \* the bytes the host has yet to deliver
    cbReceived,     \* every byte the host has delivered, in order
    retValue        \* the value the methods of the registered objects return

cbVars == <<cbBuffer, cbPool, cbCounter, cbLog, cbPending, cbHandled, cbSocket,
            hostToSend, cbReceived, retValue>>

VARIABLES
    \* ---- one CallbackServer and the ports of its machine
    srvOption,      \* options.port as the caller gave it
    srvPort,        \* CallbackServer.port
    srvServer,      \* CallbackServer._server: "null" | "created" | "listening"
                    \*   | "failed"
    srvListening,   \* CallbackServer.listening
    srvConnections, \* CallbackServer._connections
    srvListenArg,   \* the port of the latest _server.listen call
    srvBound,       \* the port the listening socket is bound to
    srvTaken,       \* the ports other processes are bound to
    srvStart,       \* the promise of start(): "none" | "pending" | "resolved"
                    \*   | "rejected"
    srvClosing,     \* _server.close was called and its callback has not run
    srvStarts,      \* number of start() calls made
    srvAccepted     \* number of connections the server has accepted

srvVars == <<srvOption, srvPort, srvServer, srvListening, srvConnections,
             srvListenArg, srvBound, srvTaken, srvStart, srvClosing, srvStarts,
             srvAccepted>>

VARIABLES
    \* ---- one proxy of a Java reference and the client behind it
    pxKind,         \* which constructor made the proxy
    pxTargetId,     \* the targetId the constructor was given (its closures
                    \*   hold it)
    pxOwn,          \* the own properties of the proxy's target object
    pxSent,         \* the commands sent for this proxy, in order
    pxResult        \* what the latest operation on the proxy gave

pxVars == <<pxKind, pxTargetId, pxOwn, pxSent, pxResult>>

VARIABLES
    \* ---- one JVMView, the proxies reached from it and the host behind it
    vwImports,      \* JVMView._imports: simple name -> fully-qualified name
    vwPending,      \* the javaImport/removeImport calls awaiting their reply
    vwSent,         \* the commands the view has sent, each as its lines
    vwHeld,         \* what the caller holds: the view, or what the latest
                    \*   property read gave
    vwResult,       \* how the latest javaImport/removeImport call ended
    vwReads         \* number of property reads made

vwVars == <<vwImports, vwPending, vwSent, vwHeld, vwResult, vwReads>>

VARIABLES
    gcCall,         \* the last call made on the gateway client
    gcPc,           \* "idle", "waiting" for the answer, or "settled"
    gcSent,         \* the command text the last call handed to _sendCommand
    gcAnswer,       \* the response line the last settled call received
    gcResult,       \* how the last call settled: returns a value, or throws
    gcProxies,      \* the proxies constructed by decoding, in order
    gcPool,         \* _proxyPool._pool: the callback proxies registered, by id
    gcCounter,      \* _proxyPool._counter
    gcCalls         \* calls made so far

gcVars == <<gcCall, gcPc, gcSent, gcAnswer, gcResult, gcProxies, gcPool,
           gcCounter, gcCalls>>

VARIABLES
    \* ---- one RequestQueue and the tasks handed to run()
    rqQueue,        \* this._queue: the tasks not yet started, oldest first
    rqRunning,      \* this._running
    rqPc,           \* _flush(): "idle" | "awaiting" (a task) | "resume" (it settled)
    rqCurrent,      \* the task _flush awaits, or 0
    rqTask,         \* per task: "unsubmitted" | "queued" | "executing" |
                    \*   "settled" (its promise settled, _flush not yet resumed) |
                    \*   "resolved" | "rejected" (the promise of run())
    rqKind,         \* per task: "async" (task() returns a promise) |
                    \*   "throws" (task() throws before it returns)
    rqOk,           \* the promise of the task awaited resolved (else rejected)
    rqStarted,      \* the tasks called, in the order of the calls
    rqSubmitted     \* number of run() calls made

rqVars == <<rqQueue, rqRunning, rqPc, rqCurrent, rqTask, rqKind, rqOk, rqStarted,
            rqSubmitted>>

vars == <<escVars, connVars, poolVars, cbVars, srvVars, pxVars, vwVars, gcVars,
          rqVars>>

\* What each machine leaves alone: the variables of the other machines.
notEsc == <<connVars, poolVars, cbVars, srvVars, pxVars,
           vwVars, gcVars, rqVars>>
notConn == <<escVars, poolVars, cbVars, srvVars, pxVars,
           vwVars, gcVars, rqVars>>
notPool == <<escVars, connVars, cbVars, srvVars, pxVars,
           vwVars, gcVars, rqVars>>
notCb == <<escVars, connVars, poolVars, srvVars, pxVars,
           vwVars, gcVars, rqVars>>
notSrv == <<escVars, connVars, poolVars, cbVars, pxVars,
           vwVars, gcVars, rqVars>>
notPx == <<escVars, connVars, poolVars, cbVars, srvVars,
           vwVars, gcVars, rqVars>>
notVw == <<escVars, connVars, poolVars, cbVars, srvVars, pxVars, gcVars, rqVars>>
notGc == <<escVars, connVars, poolVars, cbVars, srvVars, pxVars, vwVars, rqVars>>
notRq == <<escVars, connVars, poolVars, cbVars, srvVars, pxVars, vwVars, gcVars>>

----------------------------------------------------------------------------
(***************************************************************************)
(* Characters and text helpers.                                            *)
(***************************************************************************)
NL == "\n"
BS == "\\"

\* s starts with the text p (String.prototype.startsWith, and the match of a
\* literal pattern at the head of s).
StartsWith(s, p) ==
    /\ Len(s) >= Len(p)
    /\ SubSeq(s, 1, Len(p)) = p

\* s.substring(n) for a 0-based n: what follows the first n characters.
Drop(s, n) == SubSeq(s, n + 1, Len(s))

\* s.replace(/pat/g, rep) for a literal pattern: one left-to-right pass over
\* s, every non-overlapping match replaced; the replacement is not rescanned.
RECURSIVE ReplaceAll(_, _, _)
ReplaceAll(s, pat, rep) ==
    IF s = <<>> THEN <<>>
    ELSE IF StartsWith(s, pat)
         THEN rep \o ReplaceAll(Drop(s, Len(pat)), pat, rep)
         ELSE <<Head(s)>> \o ReplaceAll(Tail(s), pat, rep)

\* All texts over the alphabet A of length at most n.
RECURSIVE TextsUpTo(_, _)
TextsUpTo(A, n) ==
    IF n = 0 THEN {<<>>}
    ELSE LET shorter == TextsUpTo(A, n - 1)
         IN  shorter \cup {Append(t, c) : t \in shorter, c \in A}

----------------------------------------------------------------------------
(***************************************************************************)
(* Codec: string escaping (protocol.js).                                   *)
(***************************************************************************)
MaxStrLen == 3
EscAlphabet == {BS, NL, "n", "a"}

\* s.replace(/\\/g, '\\\\').replace(/\n/g, '\\n')
escapeNewLines(s) ==
    ReplaceAll(ReplaceAll(s, <<BS>>, <<BS, BS>>), <<NL>>, <<BS, "n">>)

\* s.replace(/\\n/g, '\n').replace(/\\\\/g, '\\')
unescapeNewLines(s) ==
    ReplaceAll(ReplaceAll(s, <<BS, "n">>, <<NL>>), <<BS, BS>>, <<BS>>)

EscInit ==
    /\ escIn \in TextsUpTo(EscAlphabet, MaxStrLen)
    /\ escMid = <<>>
    /\ escOut = <<>>
    /\ escPc = "input"

\* The encoder escapes a string value (encodeCommandPart, string case).
Escape ==
    /\ escPc = "input"
    /\ escMid' = escapeNewLines(escIn)
    /\ escPc' = "escaped"
    /\ UNCHANGED <<escIn, escOut>>
    /\ UNCHANGED notEsc

\* The decoder unescapes the payload (decodeTypedValue, tag s).
Unescape ==
    /\ escPc = "escaped"
    /\ escOut' = unescapeNewLines(escMid)
    /\ escPc' = "done"
    /\ UNCHANGED <<escIn, escMid>>
    /\ UNCHANGED notEsc

\* The decoder unescapes a payload as the host sent it; unescapeNewLines
\* has no throw statement, so the call returns.
Decode ==
    /\ escPc = "input"
    /\ escOut' = unescapeNewLines(escIn)
    /\ escPc' = "decoded"
    /\ UNCHANGED <<escIn, escMid>>
    /\ UNCHANGED notEsc

EscNext ==
    \/ Escape
    \/ Unescape
    \/ Decode

----------------------------------------------------------------------------
(***************************************************************************)
(* GatewayConnection and RequestQueue (connection.js).                     *)
(*                                                                         *)
(* Node runs one callback (macrotask) at a time and runs every pending     *)
(* promise continuation (microtask) before the next callback.  A socket    *)
(* event, a chunk of data and a write completion are macrotasks: they wait *)
(* while a continuation of _flush or _authenticate is pending.  A socket   *)
(* that failed or was destroyed delivers no further data.                  *)
(***************************************************************************)
MaxCmds == 2        \* sendCommand calls made on the connection
MaxBytes == 4       \* bytes the peer delivers in all
MaxChunk == 2       \* bytes of one 'data' event

Null == -1          \* null: no resolver is set
AuthCmd == 0        \* the command _authenticate sends; sendCommand calls are 1, 2, ...
Cmds == 1..MaxCmds
SUCCESS == "y"
RETURN_MESSAGE == "!"
VOID_TYPE == "v"
PeerAlphabet == {RETURN_MESSAGE, SUCCESS, VOID_TYPE, NL}

\* s.indexOf(c): the 0-based index of the first c in s, or -1.
IndexOf(s, c) ==
    IF \E i \in 1..Len(s) : s[i] = c
    THEN (CHOOSE i \in 1..Len(s) : s[i] = c /\ \A j \in 1..(i - 1) : s[j] # c) - 1
    ELSE -1

\* get isConnected
isConnected == ~closed /\ socket # "null"

Destroyed == sock \in {"errored", "closing", "closed"}

\* A continuation of _flush or of _authenticate is pending.
MicrotaskPending == flushPc = "resume" \/ authPc \in {"gotline", "goterr"}

\* The promise of command k's _rawSend resolves with line; cs and cr are the
\* command states and results so far.  Settling a settled promise does nothing.
ResolveRead(k, line, cs, cr) ==
    IF cs[k] = "inflight"
    THEN /\ cmdState' = [cs EXCEPT ![k] = "resolved"]
         /\ cmdResult' = [cr EXCEPT ![k] = line]
         /\ IF k = AuthCmd
            THEN authPc' = "gotline" /\ UNCHANGED flushPc
            ELSE flushPc' = "resume" /\ UNCHANGED authPc
    ELSE /\ cmdState' = cs
         /\ cmdResult' = cr
         /\ UNCHANGED <<flushPc, authPc>>

\* The promise of command k's _rawSend rejects with a Js4JNetworkError
\* (k = Null: nothing to reject).
RejectRead(k) ==
    IF k # Null /\ cmdState[k] = "inflight"
    THEN /\ cmdState' = [cmdState EXCEPT ![k] = "rejected"]
         /\ cmdErr' = [cmdErr EXCEPT ![k] = "network"]
         /\ IF k = AuthCmd
            THEN authPc' = "goterr" /\ UNCHANGED flushPc
            ELSE flushPc' = "resume" /\ UNCHANGED authPc
    ELSE UNCHANGED <<cmdState, cmdErr, flushPc, authPc>>

\* _drainBuffer with a keep-the-newline slip: the rest starts at idx.
DrainBufferKeepsNewline(buf) ==
    LET idx == IndexOf(buf, NL) IN
    IF idx # -1 /\ readResolve # Null
    THEN /\ buffer' = Drop(buf, idx)
         /\ readResolve' = Null
         /\ readReject' = Null
         /\ ResolveRead(readResolve, SubSeq(buf, 1, idx), cmdState, cmdResult)
    ELSE /\ buffer' = buf
         /\ UNCHANGED <<readResolve, readReject, cmdState, cmdResult, flushPc, authPc>>

\* _drainBuffer, run on the buffer buf that the 'data' handler has appended to.
DrainBuffer(buf) ==
    LET idx == IndexOf(buf, NL) IN
    IF idx # -1 /\ readResolve # Null
    THEN /\ buffer' = Drop(buf, idx + 1)
         /\ readResolve' = Null
         /\ readReject' = Null
         /\ ResolveRead(readResolve, SubSeq(buf, 1, idx), cmdState, cmdResult)
    ELSE /\ buffer' = buf
         /\ UNCHANGED <<readResolve, readReject, cmdState, cmdResult, flushPc, authPc>>

\* sock.on('data')
Data(chunk) ==
    /\ sock = "open"
    /\ ~MicrotaskPending
    /\ Len(received) + Len(chunk) <= MaxBytes
    /\ received' = received \o chunk
    /\ DrainBuffer(buffer \o chunk)
    /\ UNCHANGED <<authToken, connPc, socket, sock, closed, queue, running,
                   nCalled, written, writeCb>>
    /\ UNCHANGED cmdErr
    /\ UNCHANGED notConn

\* _rawSend(k) on a set socket: the resolvers are stored and the command is
\* handed to socket.write, whose callback runs later.
RawSend(k) ==
    /\ readResolve' = k
    /\ readReject' = k
    /\ written' = Append(written, k)
    /\ writeCb' = Append(writeCb, k)

\* The body of _flush's loop on the queue q: the next task is taken and
\* started, or the loop ends.  With this._socket null, socket.write throws
\* inside the promise executor: the resolvers stay stored, the task rejects.
FlushLoop(q, cs) ==
    IF q = <<>>
    THEN /\ running' = FALSE
         /\ flushPc' = "idle"
         /\ queue' = q
         /\ cmdState' = cs
         /\ UNCHANGED <<readResolve, readReject, written, writeCb, cmdErr>>
    ELSE /\ running' = TRUE
         /\ queue' = Tail(q)
         /\ IF socket = "null"
            THEN /\ readResolve' = Head(q)
                 /\ readReject' = Head(q)
                 /\ cmdState' = [cs EXCEPT ![Head(q)] = "rejected"]
                 /\ cmdErr' = [cmdErr EXCEPT ![Head(q)] = "type"]
                 /\ flushPc' = "resume"
                 /\ UNCHANGED <<written, writeCb>>
            ELSE /\ RawSend(Head(q))
                 /\ cmdState' = [cs EXCEPT ![Head(q)] = "inflight"]
                 /\ flushPc' = "awaiting"
                 /\ UNCHANGED cmdErr

\* _flush without its `if (this._running) return`.
FlushUnguarded(q, cs) == FlushLoop(q, cs)

\* _flush, called by run() after the push that made the queue q.
Flush(q, cs) ==
    IF running
    THEN /\ queue' = q
         /\ cmdState' = cs
         /\ UNCHANGED <<running, flushPc, readResolve, readReject, written,
                        writeCb, cmdErr>>
    ELSE FlushLoop(q, cs)

\* sendCommand without its `if (this._closed)` test.
SendCommandUnchecked ==
    LET k == nCalled + 1 IN
    /\ connPc = "ready"
    /\ k <= MaxCmds
    /\ nCalled' = k
    /\ Flush(Append(queue, k), [cmdState EXCEPT ![k] = "queued"])
    /\ UNCHANGED <<authToken, connPc, authPc, socket, sock, closed, buffer,
                   cmdResult, received>>
    /\ UNCHANGED notConn

\* sendCommand(command), the k-th call; the connection has been handed out.
SendCommand ==
    LET k == nCalled + 1 IN
    /\ connPc = "ready"
    /\ k <= MaxCmds
    /\ nCalled' = k
    /\ IF closed
       THEN /\ cmdState' = [cmdState EXCEPT ![k] = "rejected"]
            /\ cmdErr' = [cmdErr EXCEPT ![k] = "network"]
            /\ UNCHANGED <<queue, running, flushPc, readResolve, readReject,
                           written, writeCb>>
       ELSE Flush(Append(queue, k), [cmdState EXCEPT ![k] = "queued"])
    /\ UNCHANGED <<authToken, connPc, authPc, socket, sock, closed, buffer,
                   cmdResult, received>>
    /\ UNCHANGED notConn

\* _flush resumes after `await task()`: the promise of run() settles and the
\* loop goes on.
FlushResume ==
    /\ flushPc = "resume"
    /\ FlushLoop(queue, cmdState)
    /\ UNCHANGED <<authToken, connPc, authPc, socket, sock, closed, buffer,
                   cmdResult, nCalled, received>>
    /\ UNCHANGED notConn

\* The callback of socket.write for the oldest write, without error.
WriteDone ==
    /\ sock = "open"
    /\ ~MicrotaskPending
    /\ writeCb # <<>>
    /\ writeCb' = Tail(writeCb)
    /\ UNCHANGED <<authToken, connPc, authPc, socket, sock, closed, buffer,
                   readResolve, readReject, queue, running, flushPc, cmdState,
                   cmdResult, nCalled, written, received>>
    /\ UNCHANGED cmdErr
    /\ UNCHANGED notConn

\* The callback of socket.write for the oldest write, with an error: the
\* stored resolvers are dropped and the write's command rejects.  A write
\* that fails on an open socket destroys it.
WriteFailed ==
    /\ sock \in {"open", "errored", "closing", "closed"}
    /\ ~MicrotaskPending
    /\ writeCb # <<>>
    /\ writeCb' = Tail(writeCb)
    /\ readResolve' = Null
    /\ readReject' = Null
    /\ RejectRead(Head(writeCb))
    /\ sock' = IF sock = "open" THEN "errored" ELSE sock
    /\ UNCHANGED <<authToken, connPc, socket, closed, buffer, queue, running,
                   cmdResult, nCalled, written, received>>
    /\ UNCHANGED notConn

\* connect(): the socket is created and sock.connect is called.
Connect ==
    /\ connPc = "new"
    /\ connPc' = "connecting"
    /\ sock' = "connecting"
    /\ UNCHANGED <<authToken, authPc, socket, closed, buffer, readResolve,
                   readReject, queue, running, flushPc, cmdState, cmdResult,
                   nCalled, written, writeCb, received>>
    /\ UNCHANGED cmdErr
    /\ UNCHANGED notConn

\* The callback of sock.connect: this._socket is set; with a token
\* _authenticate sends the auth command through _rawSend, else connect resolves.
Connected ==
    /\ sock = "connecting"
    /\ sock' = "open"
    /\ socket' = "sock"
    /\ IF authToken
       THEN /\ RawSend(AuthCmd)
            /\ cmdState' = [cmdState EXCEPT ![AuthCmd] = "inflight"]
            /\ authPc' = "await"
            /\ connPc' = "authing"
       ELSE /\ connPc' = "ready"
            /\ UNCHANGED <<readResolve, readReject, written, writeCb, cmdState, authPc>>
    /\ UNCHANGED <<authToken, closed, buffer, queue, running, flushPc,
                   cmdResult, nCalled, received>>
    /\ UNCHANGED cmdErr
    /\ UNCHANGED notConn

\* _authenticate resumes with the line read: connect resolves when the line
\* starts with SUCCESS; else it throws, and connect destroys the socket and
\* rejects.
AuthResume ==
    /\ authPc = "gotline"
    /\ authPc' = "done"
    /\ IF StartsWith(cmdResult[AuthCmd], <<SUCCESS>>)
       THEN /\ connPc' = "ready"
            /\ UNCHANGED sock
       ELSE /\ connPc' = "failed"
            /\ sock' = IF sock = "open" THEN "closing" ELSE sock
    /\ UNCHANGED <<authToken, socket, closed, buffer, readResolve, readReject,
                   queue, running, flushPc, cmdState, cmdResult, nCalled,
                   written, writeCb, received>>
    /\ UNCHANGED cmdErr
    /\ UNCHANGED notConn

\* _authenticate resumes with the rejection of its read: connect destroys the
\* socket and rejects.
AuthFailed ==
    /\ authPc = "goterr"
    /\ authPc' = "done"
    /\ connPc' = "failed"
    /\ sock' = IF sock = "open" THEN "closing" ELSE sock
    /\ UNCHANGED <<authToken, socket, closed, buffer, readResolve, readReject,
                   queue, running, flushPc, cmdState, cmdResult, nCalled,
                   written, writeCb, received>>
    /\ UNCHANGED cmdErr
    /\ UNCHANGED notConn

\* The network fails: the socket is destroyed with an error.
SocketFails ==
    /\ sock \in {"connecting", "open"}
    /\ ~MicrotaskPending
    /\ sock' = "errored"
    /\ UNCHANGED <<authToken, connPc, authPc, socket, closed, buffer,
                   readResolve, readReject, queue, running, flushPc, cmdState,
                   cmdResult, nCalled, written, writeCb, received>>
    /\ UNCHANGED cmdErr
    /\ UNCHANGED notConn

\* The peer closes the stream: the socket ends without an error.
PeerCloses ==
    /\ sock = "open"
    /\ ~MicrotaskPending
    /\ sock' = "closing"
    /\ UNCHANGED <<authToken, connPc, authPc, socket, closed, buffer,
                   readResolve, readReject, queue, running, flushPc, cmdState,
                   cmdResult, nCalled, written, writeCb, received>>
    /\ UNCHANGED cmdErr
    /\ UNCHANGED notConn

\* sock.on('error'), both handlers: the connection is marked closed, a
\* pending read rejects, and before this._socket is set connect rejects.
OnError ==
    /\ sock = "errored"
    /\ ~MicrotaskPending
    /\ sock' = "closing"
    /\ closed' = TRUE
    /\ RejectRead(readReject)
    /\ readReject' = Null
    /\ readResolve' = IF readReject # Null THEN Null ELSE readResolve
    /\ connPc' = IF socket = "null" /\ connPc = "connecting" THEN "failed" ELSE connPc
    /\ UNCHANGED <<authToken, socket, buffer, queue, running, cmdResult,
                   nCalled, written, writeCb, received>>
    /\ UNCHANGED notConn

\* sock.on('close')
OnClose ==
    /\ sock = "closing"
    /\ ~MicrotaskPending
    /\ sock' = "closed"
    /\ closed' = TRUE
    /\ RejectRead(readReject)
    /\ readReject' = Null
    /\ readResolve' = IF readReject # Null THEN Null ELSE readResolve
    /\ UNCHANGED <<authToken, connPc, socket, buffer, queue, running,
                   cmdResult, nCalled, written, writeCb, received>>
    /\ UNCHANGED notConn

\* close()
Close ==
    /\ connPc = "ready"
    /\ closed' = TRUE
    /\ IF socket # "null"
       THEN /\ sock' = IF sock = "open" THEN "closing" ELSE sock
            /\ socket' = "null"
       ELSE UNCHANGED <<sock, socket>>
    /\ UNCHANGED <<authToken, connPc, authPc, buffer, readResolve, readReject,
                   queue, running, flushPc, cmdState, cmdResult, nCalled,
                   written, writeCb, received>>
    /\ UNCHANGED cmdErr
    /\ UNCHANGED notConn

ConnInit ==
    /\ authToken \in BOOLEAN
    /\ connPc = "new"
    /\ authPc = "none"
    /\ socket = "null"
    /\ sock = "unopened"
    /\ closed = FALSE
    /\ buffer = <<>>
    /\ readResolve = Null
    /\ readReject = Null
    /\ queue = <<>>
    /\ running = FALSE
    /\ flushPc = "idle"
    /\ cmdState = [k \in {AuthCmd} \cup Cmds |-> "uncalled"]
    /\ cmdResult = [k \in {AuthCmd} \cup Cmds |-> <<>>]
    /\ cmdErr = [k \in {AuthCmd} \cup Cmds |-> "none"]
    /\ nCalled = 0
    /\ written = <<>>
    /\ writeCb = <<>>
    /\ received = <<>>

\* The connection of a machine that rests.
ConnRest ==
    /\ authToken = FALSE
    /\ connPc = "new"
    /\ authPc = "none"
    /\ socket = "null"
    /\ sock = "unopened"
    /\ closed = FALSE
    /\ buffer = <<>>
    /\ readResolve = Null
    /\ readReject = Null
    /\ queue = <<>>
    /\ running = FALSE
    /\ flushPc = "idle"
    /\ cmdState = <<>>
    /\ cmdResult = <<>>
    /\ cmdErr = <<>>
    /\ nCalled = 0
    /\ written = <<>>
    /\ writeCb = <<>>
    /\ received = <<>>

ConnNext ==
    \/ Connect
    \/ Connected
    \/ AuthResume
    \/ AuthFailed
    \/ SendCommand
    \/ FlushResume
    \/ \E chunk \in TextsUpTo(PeerAlphabet, MaxChunk) \ {<<>>} : Data(chunk)
    \/ WriteDone
    \/ WriteFailed
    \/ SocketFails
    \/ PeerCloses
    \/ OnError
    \/ OnClose
    \/ Close

----------------------------------------------------------------------------
(***************************************************************************)
(* ConnectionPool (connection.js) and the callers that borrow from it.     *)
(*                                                                         *)
(* acquire() runs without suspension up to `await conn.connect()`; the     *)
(* rest of it runs when the connection is open.  A connection of the pool  *)
(* is "connecting", "live" (isConnected) or "dead" (closed by an error, by *)
(* the peer or by close()).                                                *)
(***************************************************************************)
NumCallers == 3     \* callers that use the pool concurrently
MaxPoolSize == 2    \* the pool is built with maxConnections in 1..MaxPoolSize
MaxAcquires == 3    \* acquire() calls made in all

NoConn == 0
Callers == 1..NumCallers
ConnIds == 1..MaxAcquires

\* conn.isConnected for a connection of the pool
IsLive(c) == conns[c] = "live"

\* fn(conn) of GatewayClient._sendCommand, run as soon as the caller has the
\* connection c: conn.sendCommand(command) writes the command once, or
\* writes nothing and rejects when the connection is closed.
SendOn(c) == IF IsLive(c) THEN 1 ELSE 0

\* this._idle.pop() / this._waiters.shift() leave these behind
Front(s) == SubSeq(s, 1, Len(s) - 1)
Last(s) == s[Len(s)]

\* release(conn) that takes the waiter parked last: pop() instead of shift().
ReleaseToLastWaiter(p) ==
    /\ pc[p] = "holding"
    /\ IF waiters # <<>>
       THEN /\ waiters' = Front(waiters)
            /\ active' = (active - 1) + 1
            /\ pc' = [pc EXCEPT ![p] = "out", ![Last(waiters)] = "holding"]
            /\ held' = [held EXCEPT ![p] = NoConn, ![Last(waiters)] = held[p]]
            /\ via' = [via EXCEPT ![p] = "none", ![Last(waiters)] = "handover"]
            /\ opWrites' = [opWrites EXCEPT ![p] = 0,
                                            ![Last(waiters)] = SendOn(held[p])]
            /\ UNCHANGED idle
       ELSE /\ active' = active - 1
            /\ idle' = IF IsLive(held[p]) THEN Append(idle, held[p]) ELSE idle
            /\ pc' = [pc EXCEPT ![p] = "out"]
            /\ held' = [held EXCEPT ![p] = NoConn]
            /\ via' = [via EXCEPT ![p] = "none"]
            /\ opWrites' = [opWrites EXCEPT ![p] = 0]
            /\ UNCHANGED waiters
    /\ UNCHANGED <<maxConnections, conns, nConns, nAcquires, parkedAt>>
    /\ UNCHANGED notPool

\* acquire(), up to its first suspension.
Acquire(p) ==
    /\ pc[p] = "out"
    /\ nAcquires < MaxAcquires
    /\ nAcquires' = nAcquires + 1
    /\ LET popped == Len(idle) > 0
           conn == IF popped THEN Last(idle) ELSE NoConn
           rest == IF popped THEN Front(idle) ELSE idle
       IN  /\ idle' = rest
           /\ IF popped /\ IsLive(conn)
              THEN \* an idle connection is handed out
                   /\ active' = active + 1
                   /\ pc' = [pc EXCEPT ![p] = "holding"]
                   /\ held' = [held EXCEPT ![p] = conn]
                   /\ via' = [via EXCEPT ![p] = "idle"]
                   /\ opWrites' = [opWrites EXCEPT ![p] = SendOn(conn)]
                   /\ UNCHANGED <<conns, nConns, waiters, parkedAt>>
              ELSE IF active < maxConnections
              THEN \* new GatewayConnection; await conn.connect()
                   /\ nConns' = nConns + 1
                   /\ conns' = [conns EXCEPT ![nConns + 1] = "connecting"]
                   /\ pc' = [pc EXCEPT ![p] = "connecting"]
                   /\ held' = [held EXCEPT ![p] = nConns + 1]
                   /\ UNCHANGED <<active, via, waiters, parkedAt, opWrites>>
              ELSE \* the caller is parked
                   /\ waiters' = Append(waiters, p)
                   /\ pc' = [pc EXCEPT ![p] = "parked"]
                   /\ parkedAt' = [parkedAt EXCEPT ![p] = nAcquires + 1]
                   /\ UNCHANGED <<active, conns, nConns, held, via, opWrites>>
    /\ UNCHANGED <<maxConnections, poolHist>>
    /\ UNCHANGED notPool

\* acquire() resumes: conn.connect() resolved.
AcquireConnected(p) ==
    /\ pc[p] = "connecting"
    /\ conns' = [conns EXCEPT ![held[p]] = "live"]
    /\ active' = active + 1
    /\ pc' = [pc EXCEPT ![p] = "holding"]
    /\ via' = [via EXCEPT ![p] = "new"]
    /\ opWrites' = [opWrites EXCEPT ![p] = 1]
    /\ UNCHANGED <<maxConnections, idle, waiters, held, nConns, nAcquires, parkedAt>>
    /\ UNCHANGED poolHist
    /\ UNCHANGED notPool

\* acquire() resumes: conn.connect() rejected, and so do acquire() and the
\* withConnection() that awaits it, before its try block.
AcquireFailed(p) ==
    /\ pc[p] = "connecting"
    /\ lastOutcome' = "acquireFailed"
    /\ UNCHANGED atCloseAll
    /\ conns' = [conns EXCEPT ![held[p]] = "dead"]
    /\ pc' = [pc EXCEPT ![p] = "out"]
    /\ held' = [held EXCEPT ![p] = NoConn]
    /\ UNCHANGED <<maxConnections, idle, active, waiters, via, nConns, nAcquires,
                   parkedAt, opWrites>>
    /\ UNCHANGED notPool

\* release(conn) without the `return` after resolve(conn): the connection
\* handed to a waiter is pushed onto the idle list as well.
ReleaseWithoutReturn(p) ==
    /\ pc[p] = "holding"
    /\ IF waiters # <<>>
       THEN /\ waiters' = Tail(waiters)
            /\ active' = (active - 1) + 1
            /\ pc' = [pc EXCEPT ![p] = "out", ![Head(waiters)] = "holding"]
            /\ held' = [held EXCEPT ![p] = NoConn, ![Head(waiters)] = held[p]]
            /\ via' = [via EXCEPT ![p] = "none", ![Head(waiters)] = "handover"]
            /\ opWrites' = [opWrites EXCEPT ![p] = 0,
                                            ![Head(waiters)] = SendOn(held[p])]
            /\ idle' = IF IsLive(held[p]) THEN Append(idle, held[p]) ELSE idle
       ELSE /\ active' = active - 1
            /\ idle' = IF IsLive(held[p]) THEN Append(idle, held[p]) ELSE idle
            /\ pc' = [pc EXCEPT ![p] = "out"]
            /\ held' = [held EXCEPT ![p] = NoConn]
            /\ via' = [via EXCEPT ![p] = "none"]
            /\ opWrites' = [opWrites EXCEPT ![p] = 0]
            /\ UNCHANGED waiters
    /\ UNCHANGED <<maxConnections, conns, nConns, nAcquires, parkedAt>>
    /\ UNCHANGED notPool

\* release(conn) that never looks at the waiters: the connection goes to
\* the idle list.
ReleaseIgnoresWaiters(p) ==
    /\ pc[p] = "holding"
    /\ active' = active - 1
    /\ idle' = IF IsLive(held[p]) THEN Append(idle, held[p]) ELSE idle
    /\ pc' = [pc EXCEPT ![p] = "out"]
    /\ held' = [held EXCEPT ![p] = NoConn]
    /\ via' = [via EXCEPT ![p] = "none"]
    /\ opWrites' = [opWrites EXCEPT ![p] = 0]
    /\ UNCHANGED <<waiters, maxConnections, conns, nConns, nAcquires, parkedAt>>
    /\ UNCHANGED notPool

\* release(conn) by the caller that holds conn.
Release(p) ==
    /\ pc[p] = "holding"
    /\ IF waiters # <<>>
       THEN /\ waiters' = Tail(waiters)
            /\ active' = (active - 1) + 1
            /\ pc' = [pc EXCEPT ![p] = "out", ![Head(waiters)] = "holding"]
            /\ held' = [held EXCEPT ![p] = NoConn, ![Head(waiters)] = held[p]]
            /\ via' = [via EXCEPT ![p] = "none", ![Head(waiters)] = "handover"]
            /\ opWrites' = [opWrites EXCEPT ![p] = 0,
                                            ![Head(waiters)] = SendOn(held[p])]
            /\ UNCHANGED idle
       ELSE /\ active' = active - 1
            /\ idle' = IF IsLive(held[p]) THEN Append(idle, held[p]) ELSE idle
            /\ pc' = [pc EXCEPT ![p] = "out"]
            /\ held' = [held EXCEPT ![p] = NoConn]
            /\ via' = [via EXCEPT ![p] = "none"]
            /\ opWrites' = [opWrites EXCEPT ![p] = 0]
            /\ UNCHANGED waiters
    /\ UNCHANGED <<maxConnections, conns, nConns, nAcquires, parkedAt>>
    /\ UNCHANGED notPool

\* withConnection(fn) with `try { ... } catch (e) { throw e }` and the release
\* after fn(conn) resolved: nothing releases conn when fn rejects.
WithConnectionNoFinally(p, ok) ==
    /\ IF ok
       THEN Release(p)
       ELSE /\ pc[p] = "holding"
            /\ pc' = [pc EXCEPT ![p] = "out"]
            /\ held' = [held EXCEPT ![p] = NoConn]
            /\ via' = [via EXCEPT ![p] = "none"]
            /\ opWrites' = [opWrites EXCEPT ![p] = 0]
            /\ UNCHANGED <<maxConnections, idle, active, waiters, conns, nConns,
                           nAcquires, parkedAt>>
            /\ UNCHANGED notPool
    /\ lastOutcome' = IF ok THEN "resolved" ELSE "rejected"
    /\ UNCHANGED atCloseAll

\* withConnection(fn) that, when fn rejects on a connection still open, runs
\* fn(conn) once more instead of giving up.
WithConnectionRetries(p, ok) ==
    /\ pc[p] = "holding"
    /\ IF ok \/ ~IsLive(held[p])
       THEN /\ Release(p)
            /\ lastOutcome' = IF ok THEN "resolved" ELSE "rejected"
            /\ UNCHANGED atCloseAll
       ELSE /\ opWrites' = [opWrites EXCEPT ![p] = @ + 1]
            /\ UNCHANGED <<maxConnections, idle, active, waiters, conns, nConns,
                           pc, held, via, nAcquires, parkedAt, poolHist>>
            /\ UNCHANGED notPool

\* withConnection(fn), from the moment fn(conn) settles: the finally block
\* releases conn, then the call resolves (ok) or rejects as fn did.
WithConnectionSettles(p, ok) ==
    /\ Release(p)
    /\ lastOutcome' = IF ok THEN "resolved" ELSE "rejected"
    /\ UNCHANGED atCloseAll

\* How a call awaiting this._sendCommand(command) ends, from the way the
\* withConnection call behind it ended ("resolved", "rejected" by
\* sendCommand, "acquireFailed" when connect() rejected).
\* releaseObject without its try block.
releaseObjectNoCatch(sent) == IF sent = "resolved" THEN "resolved" ELSE "rejected"

\* releaseObject(targetId): try { await this._sendCommand(command) } catch (_) {}
releaseObject(sent) == IF sent = "resolved" THEN "resolved" ELSE "resolved"

\* shutdownGateway(): try { await this._sendCommand(cmd) } catch (_) {}
shutdownGateway(sent) == IF sent = "resolved" THEN "resolved" ELSE "resolved"

\* A socket error or close event on a connection, idle or handed out.
ConnectionDies(c) ==
    /\ conns[c] = "live"
    /\ conns' = [conns EXCEPT ![c] = "dead"]
    /\ atCloseAll' = atCloseAll \ {c}
    /\ UNCHANGED <<maxConnections, idle, active, waiters, pc, held, via, nConns,
                   nAcquires, parkedAt, lastOutcome, opWrites>>
    /\ UNCHANGED notPool

\* The connections that callers hold.
HandedOut == {held[p] : p \in {q \in Callers : pc[q] = "holding"}}

\* closeAll(): conn.close() on every idle connection, then this._idle = [].
CloseAll ==
    /\ conns' = [c \in ConnIds |->
                    IF \E i \in 1..Len(idle) : idle[i] = c THEN "dead" ELSE conns[c]]
    /\ idle' = <<>>
    /\ atCloseAll' = {c \in atCloseAll \cup HandedOut : conns'[c] # "dead"}
    /\ UNCHANGED <<maxConnections, active, waiters, pc, held, via, nConns,
                   nAcquires, parkedAt, lastOutcome, opWrites>>
    /\ UNCHANGED notPool

PoolInit ==
    /\ maxConnections \in 1..MaxPoolSize
    /\ idle = <<>>
    /\ active = 0
    /\ waiters = <<>>
    /\ conns = [c \in ConnIds |-> "unmade"]
    /\ nConns = 0
    /\ pc = [p \in Callers |-> "out"]
    /\ held = [p \in Callers |-> NoConn]
    /\ via = [p \in Callers |-> "none"]
    /\ nAcquires = 0
    /\ parkedAt = [p \in Callers |-> 0]
    /\ lastOutcome = "none"
    /\ atCloseAll = {}
    /\ opWrites = [p \in Callers |-> 0]

\* The pool of a machine that rests.
PoolRest ==
    /\ maxConnections = 0
    /\ idle = <<>>
    /\ active = 0
    /\ waiters = <<>>
    /\ conns = <<>>
    /\ nConns = 0
    /\ pc = <<>>
    /\ held = <<>>
    /\ via = <<>>
    /\ nAcquires = 0
    /\ parkedAt = <<>>
    /\ lastOutcome = "none"
    /\ atCloseAll = {}
    /\ opWrites = <<>>

PoolNext ==
    \/ \E p \in Callers : Acquire(p)
    \/ \E p \in Callers : AcquireConnected(p)
    \/ \E p \in Callers : AcquireFailed(p)
    \/ \E p \in Callers, ok \in BOOLEAN : WithConnectionSettles(p, ok)
    \/ \E c \in ConnIds : ConnectionDies(c)
    \/ CloseAll

----------------------------------------------------------------------------
(***************************************************************************)
(* CallbackServer: ProxyPool and one CallbackConnection                    *)
(* (callbackServer.js).                                                    *)
(*                                                                         *)
(* The host sends commands as a stream of bytes that reaches the 'data'    *)
(* handler in chunks of any length.  The registered objects have a method  *)
(* m that returns a value and a method a that returns a promise of it.     *)
(* _handleCommand runs without suspension up to `await method.apply`; the  *)
(* reply to a value that is no promise is written before the next event.   *)
(***************************************************************************)
MaxHostCmds == 2    \* commands the host sends on the connection
MaxProxies == 1     \* objects registered by calls of register() from outside

END == "e"
ERROR == "x"
NULL_TYPE == "n"
INTEGER_TYPE == "i"
STRING_TYPE == "s"
PYTHON_PROXY_TYPE == "f"
REFERENCE_TYPE == "r"
LIST_TYPE == "l"
SET_TYPE == "h"
ARRAY_TYPE == "t"
MAP_TYPE == "a"
ITERATOR_TYPE == "g"
BOOLEAN_TYPE == "b"
LONG_TYPE == "L"
DOUBLE_TYPE == "d"
DECIMAL_TYPE == "D"
BYTES_TYPE == "j"
FATAL_ERROR == "z"

\* The id register() makes from the counter n: 'p' + n.
Digits == <<"0", "1", "2", "3", "4", "5", "6", "7", "8", "9">>
ProxyId(n) == <<"p", Digits[n + 1]>>

\* The values of the model: null, an integer, a string, and an object made
\* by createJavaProxy([], impl) (tagged _js4jProxy, no interfaces).
NullValue == <<"null">>
IntValue(n) == <<"int", n>>
StrValue(text) == <<"str", text>>
ProxyValue == <<"proxy">>
NaN == <<"NaN">>

\* What a call raises: an error of a class, with what it carries.
NetworkError == <<"throws", "Js4JNetworkError">>
FatalError(remainder) == <<"throws", "Js4JError", "fatal", remainder>>
PrefixError(typePrefix, value) ==
    <<"throws", "Js4JError", "prefix", typePrefix, value>>
JavaError(payload, javaException) ==
    <<"throws", "Js4JJavaError", payload, javaException>>

\* The call raised instead of returning a value.
IsThrown(v) == v # <<>> /\ v[1] = "throws"

\* The wrapper made by createJavaObject, createJavaList, createJavaSet,
\* createJavaMap, createJavaArray or createJavaIterator for a target id.
JavaProxyOf(kind, targetId) == <<"javaProxy", kind, targetId>>

\* A boolean, long, double, decimal or bytes value; the model keeps its tag
\* and its text and does not look into it.
OtherValue(typePrefix, value) == <<"other", typePrefix, value>>

\* Number.prototype.toString of a natural number
RECURSIVE NatToText(_)
NatToText(n) ==
    IF n < 10 THEN <<Digits[n + 1]>>
    ELSE NatToText(n \div 10) \o <<Digits[(n % 10) + 1]>>

\* parseInt(text, 10) of a text without sign: the digits it starts with.
IsDigit(c) == \E d \in 1..10 : Digits[d] = c
DigitValue(c) == (CHOOSE d \in 1..10 : Digits[d] = c) - 1
RECURSIVE ParseDigits(_, _)
ParseDigits(text, acc) ==
    IF text # <<>> /\ IsDigit(Head(text))
    THEN ParseDigits(Tail(text), 10 * acc + DigitValue(Head(text)))
    ELSE acc
parseInt(text) ==
    IF text # <<>> /\ IsDigit(Head(text)) THEN IntValue(ParseDigits(text, 0)) ELSE NaN

\* Further values a caller passes: a native number with an integer value
\* and a bigint, each given by its sign and the decimal digits of its
\* magnitude (the integers of TLC end at 2^31 - 1); a native number
\* that is no integer, given by its text; a boolean; a plain array.
NumberValue(neg, mag) == <<"number", neg, mag>>
BigIntValue(neg, mag) == <<"bigint", neg, mag>>
FractionValue(text) == <<"fraction", text>>
BoolValue(b) == <<"bool", b>>
ArrayValue == <<"array">>

\* Arithmetic on the decimal digits of a magnitude (no leading zeros).
LessText(a, b) ==
    \/ Len(a) < Len(b)
    \/ /\ Len(a) = Len(b)
       /\ \E k \in 1..Len(a) :
             /\ SubSeq(a, 1, k - 1) = SubSeq(b, 1, k - 1)
             /\ DigitValue(a[k]) < DigitValue(b[k])
RECURSIVE TimesTwo(_, _)
TimesTwo(text, carry) ==
    IF text = <<>> THEN (IF carry = 0 THEN <<>> ELSE <<Digits[carry + 1]>>)
    ELSE LET d == 2 * DigitValue(Last(text)) + carry
         IN  TimesTwo(Front(text), d \div 10) \o <<Digits[(d % 10) + 1]>>
\* The digits of 2^k for k >= 53, from 2^53 = 9007199254740992.
RECURSIVE Pow2Text(_)
Pow2Text(k) ==
    IF k <= 53
    THEN <<"9", "0", "0", "7", "1", "9", "9", "2", "5", "4", "7", "4", "0", "9", "9", "2">>
    ELSE TimesTwo(Pow2Text(k - 1), 0)
Pow2Table == [k \in 53..73 |-> Pow2Text(k)]
RECURSIVE Pow(_, _)
Pow(b, k) == IF k = 0 THEN 1 ELSE b * Pow(b, k - 1)
RECURSIVE ModText(_, _, _)
ModText(text, m, acc) ==
    IF text = <<>> THEN acc
    ELSE ModText(Tail(text), m, (10 * acc + DigitValue(Head(text))) % m)
RECURSIVE Increment(_)
Increment(text) ==
    IF text = <<>> THEN <<"1">>
    ELSE IF Last(text) = "9" THEN Increment(Front(text)) \o <<"0">>
    ELSE Front(text) \o <<Digits[DigitValue(Last(text)) + 2]>>
Zeros(n) == [k \in 1..n |-> "0"]
\* The value of a digit text, MaxTail when it is that or more.
MaxTail == Pow(10, 7)
RECURSIVE TailValue(_, _)
TailValue(text, acc) ==
    IF text = <<>> THEN acc
    ELSE LET v == 10 * acc + DigitValue(Head(text))
         IN  TailValue(Tail(text), IF v > MaxTail THEN MaxTail ELSE v)

\* Number.prototype.toString() of a native number with an integer value.
\* A double carries 53 bits: below 2^53 every integer is a double and is
\* written with its digits.  From 2^53 on the doubles lie 2 * half apart
\* (half = 2^(e - 53) in [2^e, 2^(e+1))), and toString writes the fewest
\* significant digits that still denote this double, followed by zeros, or
\* by an exponent when more than 21 digits would be needed.
BinaryExponent(mag) ==
    CHOOSE k \in 53..72 : ~LessText(mag, Pow2Table[k]) /\ LessText(mag, Pow2Table[k + 1])
\* A decimal at this distance above the double still denotes it (a tie goes
\* to the double with the even mantissa); below a power of two the doubles
\* lie half as far apart.
Denotes(diff, half, even) == diff < half \/ (diff = half /\ even)
DenotesBelow(diff, half, even, isPow2) ==
    IF isPow2 THEN diff <= half \div 2 ELSE Denotes(diff, half, even)
\* The distance of mag from its first k digits followed by zeros, and from
\* the next decimal of k digits above it.
DownDiff(mag, k) == TailValue(SubSeq(mag, k + 1, Len(mag)), 0)
UpDiff(mag, k) ==
    LET tail == SubSeq(mag, k + 1, Len(mag))
        j == Len(tail)
    IN  IF j <= 7 THEN Pow(10, j) - TailValue(tail, 0)
        ELSE IF \A x \in 1..(j - 7) : tail[x] = "9"
        THEN MaxTail - TailValue(SubSeq(tail, j - 6, j), 0)
        ELSE MaxTail
\* The fewest digits, from k on, with which a decimal denotes the double.
RECURSIVE FewestDigits(_, _, _, _, _)
FewestDigits(mag, k, half, even, isPow2) ==
    IF \/ DenotesBelow(DownDiff(mag, k), half, even, isPow2)
       \/ Denotes(UpDiff(mag, k), half, even)
    THEN k
    ELSE FewestDigits(mag, k + 1, half, even, isPow2)
\* The first k digits when the decimal below denotes the double and is the
\* nearer one, else the decimal of k digits above.
RoundedDigits(mag, k, down, up, half, even, isPow2) ==
    IF DenotesBelow(down, half, even, isPow2) /\ down <= up
    THEN SubSeq(mag, 1, k)
    ELSE Increment(SubSeq(mag, 1, k))
\* The digits s written for a number of len digits.
LayOut(sign, s, len) ==
    IF len <= 21 THEN sign \o s \o Zeros(len - Len(s))
    ELSE sign \o <<s[1]>>
           \o (IF Len(s) > 1 THEN <<".">> \o Tail(s) ELSE <<>>)
           \o <<"e", "+">> \o NatToText(len - 1)
RoundAndLayOut(sign, mag, k, s) == LayOut(sign, s, Len(mag) + (Len(s) - k))
ShortestAt(sign, mag, k, half, even, isPow2) ==
    RoundAndLayOut(sign, mag, k,
        RoundedDigits(mag, k, DownDiff(mag, k), UpDiff(mag, k), half, even, isPow2))
ShortestWith(sign, mag, half, even, isPow2) ==
    ShortestAt(sign, mag, FewestDigits(mag, 1, half, even, isPow2), half, even, isPow2)
ShortestFor(sign, mag, e, half) ==
    ShortestWith(sign, mag, half, ModText(mag, 4 * half, 0) = 0, mag = Pow2Table[e])
ShortestIn(sign, mag, e) == ShortestFor(sign, mag, e, Pow(2, e - 53))
NumberToString(neg, mag) ==
    IF LessText(mag, Pow2Table[53])
    THEN (IF neg /\ mag # <<"0">> THEN <<"-">> ELSE <<>>) \o mag
    ELSE ShortestIn(IF neg THEN <<"-">> ELSE <<>>, mag, BinaryExponent(mag))

\* value >= -2147483648 && value <= 2147483647
InInt32(neg, mag) ==
    IF neg THEN ~LessText(<<"2", "1", "4", "7", "4", "8", "3", "6", "4", "8">>, mag)
    ELSE ~LessText(<<"2", "1", "4", "7", "4", "8", "3", "6", "4", "7">>, mag)

\* What encodeCommandPart raises.
EncodeError(what) == <<"throws", "Js4JError", "encode", what>>

\* encodeCommandPart(value, proxyPool) for the values of the model; proxyId
\* is the id that proxyPool.register(value) returns for a callback proxy.
encodeCommandPart(value, proxyId) ==
    IF value = NullValue THEN <<NULL_TYPE, NL>>
    ELSE IF value[1] = "bool"
    THEN <<BOOLEAN_TYPE>> \o (IF value[2] THEN <<"t", "r", "u", "e">>
                                ELSE <<"f", "a", "l", "s", "e">>) \o <<NL>>
    ELSE IF value[1] = "bigint"
    THEN <<LONG_TYPE>> \o (IF value[2] THEN <<"-">> ELSE <<>>) \o value[3] \o <<NL>>
    ELSE IF value[1] = "int" THEN <<INTEGER_TYPE>> \o NatToText(value[2]) \o <<NL>>
    ELSE IF value[1] = "number"
    THEN (IF InInt32(value[2], value[3]) THEN <<INTEGER_TYPE>> ELSE <<LONG_TYPE>>)
            \o NumberToString(value[2], value[3]) \o <<NL>>
    ELSE IF value[1] = "fraction" THEN <<DOUBLE_TYPE>> \o value[2] \o <<NL>>
    ELSE IF value[1] = "str" THEN <<STRING_TYPE>> \o escapeNewLines(value[2]) \o <<NL>>
    ELSE IF value[1] = "javaProxy" THEN <<REFERENCE_TYPE>> \o value[3] \o <<NL>>
    ELSE IF value[1] = "array" THEN EncodeError("array")
    ELSE <<PYTHON_PROXY_TYPE>> \o proxyId \o <<";">> \o <<NL>>

\* ProxyPool.get(id): this._pool.get(id) || null; the objects are numbered.
PoolGet(pool, id) == IF id \in DOMAIN pool THEN <<"object", pool[id]>> ELSE NullValue

\* wrapJavaObject without the case of SET_TYPE.
wrapJavaObjectNoSet(targetId, typeHint) ==
    CASE typeHint = LIST_TYPE -> JavaProxyOf("list", targetId)
      [] typeHint = MAP_TYPE -> JavaProxyOf("map", targetId)
      [] typeHint = ARRAY_TYPE -> JavaProxyOf("array", targetId)
      [] typeHint = ITERATOR_TYPE -> JavaProxyOf("iterator", targetId)
      [] OTHER -> JavaProxyOf("object", targetId)

\* wrapJavaObject(targetId, typeHint, gatewayClient).
wrapJavaObject(targetId, typeHint) ==
    CASE typeHint = LIST_TYPE -> JavaProxyOf("list", targetId)
      [] typeHint = SET_TYPE -> JavaProxyOf("set", targetId)
      [] typeHint = MAP_TYPE -> JavaProxyOf("map", targetId)
      [] typeHint = ARRAY_TYPE -> JavaProxyOf("array", targetId)
      [] typeHint = ITERATOR_TYPE -> JavaProxyOf("iterator", targetId)
      [] OTHER -> JavaProxyOf("object", targetId)

\* The tags of the references the host returns.
ReferenceTypes == {REFERENCE_TYPE, LIST_TYPE, SET_TYPE, MAP_TYPE, ARRAY_TYPE,
                   ITERATOR_TYPE}

\* decodeTypedValue(typePrefix, value, gatewayClient); pool is the proxy pool
\* of the gateway client.
decodeTypedValue(typePrefix, value, pool) ==
    IF typePrefix \in {VOID_TYPE, NULL_TYPE} THEN NullValue
    ELSE IF typePrefix = INTEGER_TYPE THEN parseInt(value)
    ELSE IF typePrefix = STRING_TYPE THEN StrValue(unescapeNewLines(value))
    ELSE IF typePrefix \in ReferenceTypes THEN wrapJavaObject(value, typePrefix)
    ELSE IF typePrefix = PYTHON_PROXY_TYPE THEN PoolGet(pool, value)
    ELSE IF typePrefix \in {BOOLEAN_TYPE, LONG_TYPE, DOUBLE_TYPE, DECIMAL_TYPE,
                            BYTES_TYPE}
    THEN OtherValue(typePrefix, value)
    ELSE PrefixError(typePrefix, value)

\* The ERROR branch of decodeReturnValue: the payload is decoded as a typed
\* value, a failure of that decoding is caught and leaves null.
DecodeJavaError(errPayload, pool) ==
    LET decoded == IF errPayload = <<>>
                   THEN PrefixError("undefined", <<>>)
                   ELSE decodeTypedValue(errPayload[1], Tail(errPayload), pool)
    IN  JavaError(errPayload, IF IsThrown(decoded) THEN NullValue ELSE decoded)

\* decodeReturnValue without the check that the response code is SUCCESS.
decodeReturnValueAnyCode(answer, pool) ==
    IF answer = <<>> THEN NetworkError
    ELSE LET a == IF Head(answer) = RETURN_MESSAGE THEN Tail(answer) ELSE answer IN
         IF a # <<>> /\ Head(a) = FATAL_ERROR THEN FatalError(Tail(a))
         ELSE IF a # <<>> /\ Head(a) = ERROR THEN DecodeJavaError(Tail(a), pool)
         ELSE IF Len(a) < 2 THEN NullValue
         ELSE decodeTypedValue(a[2], Drop(a, 2), pool)

\* decodeReturnValue(answer, gatewayClient) on a response line.
decodeReturnValue(answer, pool) ==
    IF answer = <<>> THEN NetworkError
    ELSE LET a == IF Head(answer) = RETURN_MESSAGE THEN Tail(answer) ELSE answer IN
         IF a # <<>> /\ Head(a) = FATAL_ERROR THEN FatalError(Tail(a))
         ELSE IF a # <<>> /\ Head(a) = ERROR THEN DecodeJavaError(Tail(a), pool)
         ELSE IF a = <<>> \/ Head(a) # SUCCESS THEN NetworkError
         ELSE IF Len(a) < 2 THEN NullValue
         ELSE decodeTypedValue(a[2], Drop(a, 2), pool)

\* One command of the host: its lines, each ended by a newline.
RECURSIVE JoinLines(_)
JoinLines(lines) ==
    IF lines = <<>> THEN <<>>
    ELSE Head(lines) \o <<NL>> \o JoinLines(Tail(lines))

HostCommands ==
    { JoinLines(<<<<"c">>, ProxyId(0), <<"m">>, <<"i", "4">>, <<END>>>>),  \* call m(4)
      JoinLines(<<<<"c">>, ProxyId(0), <<"a">>, <<END>>>>),    \* call a, async
      JoinLines(<<<<"g">>, ProxyId(0), <<END>>>>),             \* collect p0
      JoinLines(<<<<"u">>, <<END>>>>) }                        \* no command of the protocol

\* The byte streams of at most n commands.
RECURSIVE HostStreams(_)
HostStreams(n) ==
    IF n = 0 THEN {<<>>}
    ELSE LET shorter == HostStreams(n - 1)
         IN  shorter \cup {s \o c : s \in shorter, c \in HostCommands}

\* typeof proxy[methodName] === 'function', and whether the method returns a promise
IsMethod(name) == name \in {<<"m">>, <<"a">>}
IsAsync(name) == name = <<"a">>

\* What the methods m and a of every registered object may return.
Results ==
    { NullValue, IntValue(7), StrValue(<<"a", NL>>), StrValue(<<BS, "n">>), ProxyValue }

\* _decodeArgs(argLines): empty lines are skipped, the others decoded.
RECURSIVE DecodeArgs(_, _)
DecodeArgs(argLines, pool) ==
    IF argLines = <<>> THEN <<>>
    ELSE LET line == Head(argLines) IN
         IF Len(line) = 0 THEN DecodeArgs(Tail(argLines), pool)
         ELSE <<decodeTypedValue(line[1], Tail(line), pool)>>
              \o DecodeArgs(Tail(argLines), pool)

\* The registrations made so far: the objects are numbered in that order.
Registrations(log) == {x \in 1..Len(log) : log[x][1] = "register"}

\* register(obj) that makes the id from the number of entries of the pool.
RegisterIdBySize(counter, pool) == ProxyId(Cardinality(DOMAIN pool))
\* ProxyPool.register(obj) on the pool with this counter: the id it returns.
RegisterId(counter, pool) == ProxyId(counter)
\* this._pool.set(id, obj)
PoolSet(pool, id, obj) ==
    [x \in DOMAIN pool \cup {id} |-> IF x = id THEN obj ELSE pool[x]]
\* remove(id) that deletes nothing.
PoolKeep(pool, id) == pool
\* ProxyPool.remove(id): this._pool.delete(id)
PoolRemove(pool, id) == [x \in DOMAIN pool \ {id} |-> pool[x]]

\* socket.write(text) for command number i: nothing is written on a destroyed socket.
Written(log, i, text) ==
    IF cbSocket = "open" THEN Append(log, <<"reply", i, text>>) ELSE log

\* _sendSuccess(value): null or undefined gives the void reply; else the
\* value is encoded, which registers a callback proxy with the proxy pool.
SendSuccess(log, i, value) ==
    IF value = NullValue
    THEN /\ cbLog' = Written(log, i, <<RETURN_MESSAGE, SUCCESS, VOID_TYPE, NL>>)
         /\ UNCHANGED <<cbPool, cbCounter>>
    ELSE LET id == RegisterId(cbCounter, cbPool)
             obj == Cardinality(Registrations(log)) + 1
             encoded == encodeCommandPart(value, id)
             response == IF IsThrown(encoded)
                         THEN <<RETURN_MESSAGE, SUCCESS, VOID_TYPE, NL>>
                         ELSE <<RETURN_MESSAGE, SUCCESS>> \o encoded
         IN  IF value = ProxyValue
             THEN /\ cbCounter' = cbCounter + 1
                  /\ cbPool' = PoolSet(cbPool, id, obj)
                  /\ cbLog' = Written(Append(log, <<"register", id, obj>>), i, response)
             ELSE /\ cbLog' = Written(log, i, response)
                  /\ UNCHANGED <<cbPool, cbCounter>>
\* _sendSuccessVoid()
SendSuccessVoid(log, i) == Written(log, i, <<RETURN_MESSAGE, SUCCESS, VOID_TYPE, NL>>)
\* _sendError(message); the message is kept as one piece of text
SendError(log, i, message) == Written(log, i, <<RETURN_MESSAGE, ERROR>> \o message \o <<NL>>)

\* _handleCommand(lines), up to its first suspension.  The command gets the
\* next number; the log records that its handling began, each call of a
\* method with its decoded arguments, and every reply.
HandleCommand(lines) ==
    LET i == cbHandled + 1
        log == Append(cbLog, <<"handle", i, lines>>)
        commandType == lines[1]
    IN  /\ cbHandled' = i
        /\ IF commandType = <<"c">>
           THEN LET proxyId == lines[2] IN
                IF PoolGet(cbPool, proxyId) = NullValue
                THEN /\ cbLog' = SendError(log, i, <<"No proxy found with id: ">> \o proxyId)
                     /\ UNCHANGED <<cbPool, cbCounter, cbPending>>
                ELSE LET methodName == lines[3]
                         argLines == SubSeq(lines, 4, Len(lines) - 1)
                         called == Append(log, <<"invoke", i,
                                      <<proxyId, methodName, DecodeArgs(argLines, cbPool)>>>>)
                     IN
                     IF ~IsMethod(methodName)
                     THEN /\ cbLog' = SendError(log, i, <<"Method '">> \o methodName
                                                       \o <<"' not found on proxy">>)
                          /\ UNCHANGED <<cbPool, cbCounter, cbPending>>
                     ELSE IF IsAsync(methodName)
                     THEN /\ cbLog' = called
                          /\ cbPending' = cbPending \cup {i}
                          /\ UNCHANGED <<cbPool, cbCounter>>
                     ELSE /\ SendSuccess(called, i, retValue)
                          /\ UNCHANGED cbPending
           ELSE IF commandType = <<"g">>
           THEN /\ cbPool' = PoolRemove(cbPool, lines[2])
                /\ cbLog' = SendSuccessVoid(log, i)
                /\ UNCHANGED <<cbCounter, cbPending>>
           ELSE /\ cbLog' = log
                /\ UNCHANGED <<cbPool, cbCounter, cbPending>>

\* The loop of _processBuffer: lines are cut off `remaining` until there is
\* no newline left or a line equal to END is cut.
RECURSIVE ReadLines(_, _)
ReadLines(lines, remaining) ==
    LET idx == IndexOf(remaining, NL) IN
    IF idx = -1
    THEN [lines |-> lines, remaining |-> remaining, ended |-> FALSE]
    ELSE LET line == SubSeq(remaining, 1, idx)
             rest == Drop(remaining, idx + 1)
         IN  IF line = <<END>>
             THEN [lines |-> Append(lines, line), remaining |-> rest, ended |-> TRUE]
             ELSE ReadLines(Append(lines, line), rest)

\* _processBuffer, run on the buffer buf that the 'data' handler has appended to.
ProcessBuffer(buf) ==
    LET r == ReadLines(<<>>, buf) IN
    /\ cbBuffer' = r.remaining
    /\ IF r.ended
       THEN HandleCommand(r.lines)
       ELSE UNCHANGED <<cbPool, cbCounter, cbLog, cbPending, cbHandled>>

\* socket.on('data'): the next n bytes of the host arrive as one chunk.
CbData(n) ==
    /\ cbSocket = "open"
    /\ n \in 1..Len(hostToSend)
    /\ hostToSend' = Drop(hostToSend, n)
    /\ cbReceived' = cbReceived \o SubSeq(hostToSend, 1, n)
    /\ ProcessBuffer(cbBuffer \o SubSeq(hostToSend, 1, n))
    /\ UNCHANGED <<cbSocket, retValue>>
    /\ UNCHANGED notCb

\* The promise a method returned resolves: _handleCommand resumes and replies.
MethodResolves(i) ==
    /\ i \in cbPending
    /\ cbPending' = cbPending \ {i}
    /\ SendSuccess(cbLog, i, retValue)
    /\ UNCHANGED <<cbBuffer, cbHandled, cbSocket, hostToSend, cbReceived, retValue>>
    /\ UNCHANGED notCb

\* What the promise of a method rejects with: an Error with a message of
\* one line, an Error with a message of two lines, or null.
Failures ==
    { <<"Error", <<"failed">>>>, <<"Error", <<"a", NL, "b">>>>, NullValue }

\* The promise a method returned rejects: _handleCommand replies with
\* err.message || String(err).  Reading err.message of null raises a
\* TypeError inside the catch block: nothing is written, the promise of
\* _handleCommand rejects with no handler, and the process goes on or ends
\* with the socket, as the runtime is set up.
MethodRejects(i, err) ==
    /\ i \in cbPending
    /\ cbPending' = cbPending \ {i}
    /\ IF err = NullValue
       THEN /\ cbLog' = cbLog
            /\ cbSocket' \in {cbSocket, "destroyed"}
       ELSE /\ cbLog' = SendError(cbLog, i, err[2])
            /\ UNCHANGED cbSocket
    /\ UNCHANGED <<cbBuffer, cbPool, cbCounter, cbHandled, hostToSend,
                   cbReceived, retValue>>
    /\ UNCHANGED notCb

\* ProxyPool.register(obj), called from outside the connection.
Register ==
    LET id == RegisterId(cbCounter, cbPool)
        obj == Cardinality(Registrations(cbLog)) + 1
    IN  /\ Cardinality(Registrations(cbLog)) < MaxProxies
        /\ cbCounter' = cbCounter + 1
        /\ cbPool' = PoolSet(cbPool, id, obj)
        /\ cbLog' = Append(cbLog, <<"register", id, obj>>)
        /\ UNCHANGED <<cbBuffer, cbPending, cbHandled, cbSocket, hostToSend,
                       cbReceived, retValue>>
        /\ UNCHANGED notCb

\* CallbackServer.stop(): the socket of the connection is destroyed.
Stop ==
    /\ cbSocket = "open"
    /\ cbSocket' = "destroyed"
    /\ UNCHANGED <<cbBuffer, cbPool, cbCounter, cbLog, cbPending, cbHandled,
                   hostToSend, cbReceived, retValue>>
    /\ UNCHANGED notCb

CbInit ==
    /\ cbBuffer = <<>>
    /\ cbPool = <<>>
    /\ cbCounter = 0
    /\ cbLog = <<>>
    /\ cbPending = {}
    /\ cbHandled = 0
    /\ cbSocket = "open"
    /\ hostToSend \in HostStreams(MaxHostCmds)
    /\ cbReceived = <<>>
    /\ retValue \in Results

\* The callback connection of a machine that rests.
CbRest ==
    /\ cbBuffer = <<>>
    /\ cbPool = <<>>
    /\ cbCounter = 0
    /\ cbLog = <<>>
    /\ cbPending = {}
    /\ cbHandled = 0
    /\ cbSocket = "none"
    /\ hostToSend = <<>>
    /\ cbReceived = <<>>
    /\ retValue = NullValue

\* The longest stream a host sends.
MaxHostBytes ==
    MaxHostCmds * (CHOOSE n \in {Len(c) : c \in HostCommands} :
                      \A c \in HostCommands : Len(c) <= n)

CbNext ==
    \/ \E n \in 1..MaxHostBytes : CbData(n)
    \/ \E i \in 1..MaxHostCmds : MethodResolves(i)
    \/ \E i \in 1..MaxHostCmds, err \in Failures : MethodRejects(i, err)
    \/ Register
    \/ Stop

----------------------------------------------------------------------------
(***************************************************************************)
(* The callback server: CallbackServer of callbackServer.js, its port and  *)
(* its life from start() to stop().                                        *)
(***************************************************************************)
\* options.port when the caller gave none.
Undefined == -1

\* No port: listen was not called, or no socket is bound.
NoPort == -2

\* The default port of the callback server.
DEFAULT_CALLBACK_PORT == 25334

\* Another port a caller may configure.
OtherPort == 7000

\* The ports the system hands out to a listen on port 0.
EphemeralPorts == {49152, 49153}

\* The most connections the host opens to the server.
MaxSrvConns == 2

\* The most start() calls made on one server.
MaxStarts == 2

\* What a caller passes as options.port.
PortOptions == {Undefined, 0, DEFAULT_CALLBACK_PORT, OtherPort}

\* `a || b` on port numbers: undefined and 0 are falsy.
OrElse(a, b) == IF a = Undefined \/ a = 0 THEN b ELSE a

\* CallbackServerParameters: the port the gateway keeps for its server.
ParametersPort(option) == OrElse(option, DEFAULT_CALLBACK_PORT)

\* CallbackServer constructor: the port field.
ConstructorPort(option) == OrElse(option, DEFAULT_CALLBACK_PORT)

\* The ports a listen on `arg` can bind, given the ports that are taken.
Bindable(arg, taken) ==
    IF arg = 0 THEN EphemeralPorts \ taken ELSE {arg} \ taken

\* start(): a server is created and listen is called with this.port.  The
\* caller starts a server that has none and waits for a stop() to finish.
SrvStart ==
    /\ srvServer = "null"
    /\ ~srvClosing
    /\ srvStarts < MaxStarts
    /\ srvStarts' = srvStarts + 1
    /\ srvServer' = "created"
    /\ srvListenArg' = srvPort
    /\ srvStart' = "pending"
    /\ UNCHANGED <<srvOption, srvPort, srvListening, srvConnections, srvBound,
                   srvTaken, srvClosing,
                   srvAccepted>>
    /\ UNCHANGED notSrv

\* The callback of listen: the socket is bound, the port field takes the
\* port of the socket's address and start() resolves.
SrvListening ==
    /\ srvStart = "pending"
    /\ \E port \in Bindable(srvListenArg, srvTaken) :
          /\ srvBound' = port
          /\ srvPort' = port
    /\ srvServer' = "listening"
    /\ srvListening' = TRUE
    /\ srvStart' = "resolved"
    /\ UNCHANGED <<srvOption, srvConnections, srvListenArg, srvTaken,
                   srvClosing, srvStarts,
                   srvAccepted>>
    /\ UNCHANGED notSrv

\* The 'error' event of the server: the port is taken, start() rejects.
SrvListenError ==
    /\ srvStart = "pending"
    /\ Bindable(srvListenArg, srvTaken) = {}
    /\ srvServer' = "failed"
    /\ srvStart' = "rejected"
    /\ UNCHANGED <<srvOption, srvPort, srvListening, srvConnections,
                   srvListenArg, srvBound, srvTaken, srvClosing, srvStarts,
                   srvAccepted>>
    /\ UNCHANGED notSrv

\* The connection listener: the host connects and the connection, numbered
\* in the order of arrival, is added.
SrvAccept ==
    /\ srvServer = "listening"
    /\ srvAccepted < MaxSrvConns
    /\ srvAccepted' = srvAccepted + 1
    /\ srvConnections' = srvConnections \cup {srvAccepted + 1}
    /\ UNCHANGED <<srvOption, srvPort, srvServer, srvListening, srvListenArg,
                   srvBound, srvTaken, srvStart, srvClosing, srvStarts>>
    /\ UNCHANGED notSrv

\* The 'close' event of a connection's socket.
SrvConnClose(c) ==
    /\ c \in srvConnections
    /\ srvConnections' = srvConnections \ {c}
    /\ UNCHANGED <<srvOption, srvPort, srvServer, srvListening, srvListenArg,
                   srvBound, srvTaken, srvStart, srvClosing, srvStarts,
                   srvAccepted>>
    /\ UNCHANGED notSrv

\* stop(): every connection is destroyed and forgotten; a server, if any, is
\* closed and the field cleared.  The caller waits for start() to settle.
SrvStop ==
    /\ srvStart # "pending"
    /\ ~srvClosing
    /\ srvServer # "null"
    /\ srvConnections' = {}
    /\ srvServer' = "null"
    /\ srvClosing' = TRUE
    /\ UNCHANGED <<srvOption, srvPort, srvListening, srvListenArg, srvBound,
                   srvTaken, srvStart, srvStarts,
                   srvAccepted>>
    /\ UNCHANGED notSrv

\* The callback of _server.close: the socket is gone, stop() resolves.
SrvClosed ==
    /\ srvClosing
    /\ srvClosing' = FALSE
    /\ srvListening' = FALSE
    /\ srvBound' = NoPort
    /\ UNCHANGED <<srvOption, srvPort, srvServer, srvConnections, srvListenArg,
                   srvTaken, srvStart, srvStarts,
                   srvAccepted>>
    /\ UNCHANGED notSrv

\* A server made by `new CallbackServer({port: option})`, directly or by
\* the gateway from its CallbackServerParameters.
SrvInit ==
    /\ srvOption \in PortOptions
    /\ srvPort \in {ConstructorPort(srvOption),
                    ConstructorPort(ParametersPort(srvOption))}
    /\ srvServer = "null"
    /\ srvListening = FALSE
    /\ srvConnections = {}
    /\ srvListenArg = NoPort
    /\ srvBound = NoPort
    /\ srvTaken \in SUBSET {DEFAULT_CALLBACK_PORT, OtherPort}
    /\ srvStart = "none"
    /\ srvClosing = FALSE
    /\ srvStarts = 0
    /\ srvAccepted = 0

\* The callback server of a machine that rests.
SrvRest ==
    /\ srvOption = Undefined
    /\ srvPort = NoPort
    /\ srvServer = "null"
    /\ srvListening = FALSE
    /\ srvConnections = {}
    /\ srvListenArg = NoPort
    /\ srvBound = NoPort
    /\ srvTaken = {}
    /\ srvStart = "none"
    /\ srvClosing = FALSE
    /\ srvStarts = 0
    /\ srvAccepted = 0

SrvNext ==
    \/ SrvStart
    \/ SrvListening
    \/ SrvListenError
    \/ SrvAccept
    \/ \E c \in 1..MaxSrvConns : SrvConnClose(c)
    \/ SrvStop
    \/ SrvClosed

----------------------------------------------------------------------------
(***************************************************************************)
(* Proxies of Java references: createJavaObject of javaObject.js, the      *)
(* collection wrappers of collections.js and createJavaClass of            *)
(* jvmView.js, with the operations a caller makes on one of them.          *)
(***************************************************************************)
\* The prefix of the target id of a class.
STATIC_PREFIX == "z:"

\* The constructors: createJavaObject, createJavaList, createJavaSet,
\* createJavaMap, createJavaArray, createJavaIterator, createJavaClass.
ProxyKinds == {"object", "list", "set", "map", "array", "iterator", "class"}

\* The proxies of the namespace: createJavaPackage and the JVMView.
NamespaceKinds == {"package", "view"}
AllKinds == ProxyKinds \cup NamespaceKinds

\* The package names a caller starts from.
PackageNames == {"a"}

\* The ids the host gives its objects, and the class names a caller uses.
TargetIds == {"o1", "o2"}
Fqns == {"A", "B"}

\* The most commands sent for one proxy.
MaxSent == 2

\* Values of properties.
StrOf(text) == <<"str", text>>
ClientValue == <<"client">>
TrueValue == <<"true">>
UndefinedValue == <<"undefined">>
\* A method written in the wrapper: it sends its command to `target`.
MethodOf(target, name) == <<"method", target, name>>
\* The arrow function the get trap returns: callMethod(target, prop, args).
CallableOf(target, prop) == <<"callable", target, prop>>
\* A function inherited from Object.prototype or Function.prototype.
NativeOf(name) == <<"native", name>>
\* A number, and an object that is none of the above.
NumOf(n) == <<"num", n>>
ObjectValue == <<"object">>

\* The property names a caller reads, assigns and calls.
PxProps == {"_targetId", "_gatewayClient", "size", "toString", "then", "name"}

\* The values a caller assigns.
AssignValues == {StrOf("o9")}

\* The properties every target inherits from its prototype.
Inherited == {"toString"}

\* `prop in target`.
In(own, prop) == prop \in DOMAIN own \/ prop \in Inherited

\* The class name createJavaClass was given, from the target id it built.
FqnOf(targetId) == CHOOSE fqn \in Fqns : STATIC_PREFIX \o fqn = targetId

\* The own properties every `function name() {}` has from its creation.
FunctionOwn(name) ==
    [p \in {"name", "length", "prototype"} |->
        IF p = "name" THEN StrOf(name)
        ELSE IF p = "length" THEN NumOf(0)
        ELSE ObjectValue]

\* The own properties of a function that are not writable.
ReadOnly(kind) ==
    IF kind \in {"class", "package"} THEN {"name", "length"} ELSE {}

\* The id of the default view on the host.
DEFAULT_JVM_ID == "rj"

\* The segments of the dotted names the caller uses.
Segments == {"a", "B", "help", "*"}

\* The property names the caller reads on the view and on packages.
VwProps == {"a", "B", "help", "name", "then"}

\* The first character of each property name in use: prop[0].
FirstChar(prop) ==
    CASE prop = "a" -> "a"
      [] prop = "B" -> "B"
      [] prop = "help" -> "h"
      [] prop = "name" -> "n"
      [] prop = "then" -> "t"
      [] prop = "*" -> "*"
      [] prop = "size" -> "s"
      [] prop = "toString" -> "t"
      [] prop \in {"_targetId", "_gatewayClient"} -> "_"

\* The letters among those characters, lower case and upper case.
Letters == {<<"a", "A">>, <<"b", "B">>, <<"h", "H">>, <<"n", "N">>,
            <<"s", "S">>, <<"t", "T">>}

\* String.prototype.toUpperCase / toLowerCase of one character.
ToUpperCase(c) ==
    IF \E l \in Letters : l[1] = c
    THEN (CHOOSE l \in Letters : l[1] = c)[2] ELSE c
ToLowerCase(c) ==
    IF \E l \in Letters : l[2] = c
    THEN (CHOOSE l \in Letters : l[2] = c)[1] ELSE c

\* The test both get traps make: the name starts with an upper-case letter.
LooksLikeClass(prop) ==
    /\ FirstChar(prop) = ToUpperCase(FirstChar(prop))
    /\ FirstChar(prop) # ToLowerCase(FirstChar(prop))

\* parts.join('.')
RECURSIVE Join(_)
Join(parts) ==
    IF Len(parts) = 1 THEN parts[1]
    ELSE parts[1] \o "." \o Join(Tail(parts))

\* The dotted names in use, as their parts.
PartLists == UNION {[1..n -> Segments] : n \in 1..2}

\* fqn.split('.') of a dotted name in use.
Split(fqn) == CHOOSE parts \in PartLists : Join(parts) = fqn

\* The names the caller imports and removes.
ImportNames == {Join(<<"a", "B">>), Join(<<"B">>), Join(<<"a", "help">>),
                Join(<<"a", "*">>)}

\* A proxy made by createJavaClass(fqn) or createJavaPackage(fqn), and the
\* proxy of the view with the given id.
ClassProxyOf(fqn) == <<"proxy", "class", fqn>>
PackageProxyOf(fqn) == <<"proxy", "package", fqn>>
ViewProxyOf(id) == <<"proxy", "view", id>>

\* The own properties of the target of createJavaPackage(fqn).
PackageOwn(fqn) ==
    [p \in {"_fqn", "_isJavaPackage"} |->
        IF p = "_fqn" THEN StrOf(fqn) ELSE TrueValue]
    @@ FunctionOwn("JavaPackage")

\* What a function inherits from Function.prototype and Object.prototype.
PackageInherited == Inherited \cup {"call", "apply", "bind", "constructor"}

\* The own properties of a JVMView (the content of _imports is apart).
ViewOwn(id) ==
    [p \in {"_gatewayClient", "_imports", "_id"} |->
        IF p = "_gatewayClient" THEN ClientValue
        ELSE IF p = "_id" THEN StrOf(id)
        ELSE ObjectValue]

\* The methods of class JVMView, which the view inherits.
ViewMethods == {"javaImport", "removeImport", "getClass", "help",
                "constructor"}

\* The get trap of createJavaPackage, for a non-empty string name.
PackageGet(own, fqn, prop) ==
    IF prop \in DOMAIN own THEN own[prop]
    ELSE IF prop \in PackageInherited THEN NativeOf(prop)
    ELSE IF prop = "then" THEN UndefinedValue
    ELSE LET childFqn == IF fqn # "" THEN fqn \o "." \o prop ELSE prop
         IN  IF LooksLikeClass(prop) THEN ClassProxyOf(childFqn)
             ELSE PackageProxyOf(childFqn)

\* The get trap of the JVMView, for a non-empty string name.
ViewGet(own, imports, prop) ==
    IF prop \in DOMAIN own THEN own[prop]
    ELSE IF prop \in ViewMethods THEN MethodOf("view", prop)
    ELSE IF prop \in Inherited THEN NativeOf(prop)
    ELSE IF prop = "then" THEN UndefinedValue
    ELSE IF prop \in DOMAIN imports THEN ClassProxyOf(imports[prop])
    ELSE IF LooksLikeClass(prop) THEN ClassProxyOf(prop)
    ELSE PackageProxyOf(prop)

\* The own string-keyed properties of the target a constructor builds (of a
\* wrapper's methods the one named among PxProps; the others are alike).
OwnAtCreation(kind, targetId) ==
    LET fields == [p \in {"_targetId", "_gatewayClient"} |->
                      IF p = "_targetId" THEN StrOf(targetId) ELSE ClientValue]
        flag(name) == [p \in {name} |-> TrueValue]
        size == [p \in {"size"} |-> MethodOf(targetId, "size")]
    IN  CASE kind = "object" -> fields
          [] kind = "list" -> fields @@ flag("_isJavaList") @@ size
          [] kind = "set" -> fields @@ flag("_isJavaSet") @@ size
          [] kind = "map" -> fields @@ flag("_isJavaMap") @@ size
          [] kind = "array" -> fields @@ flag("_isJavaArray")
          [] kind = "iterator" -> fields @@ flag("_isJavaIterator")
          [] kind = "class" ->
                fields @@ flag("_isJavaClass")
                @@ [p \in {"_fqn"} |-> StrOf(FqnOf(targetId))]
                @@ FunctionOwn("JavaClass")
          [] kind = "package" -> PackageOwn(targetId)
          [] kind = "view" -> ViewOwn(targetId)

\* target[prop] of an ordinary object.
OrdinaryGet(own, prop) ==
    IF prop \in DOMAIN own THEN own[prop]
    ELSE IF prop \in Inherited THEN NativeOf(prop)
    ELSE UndefinedValue

\* The get trap the proxies share, for a string property name.
GetTrap(own, targetId, prop) ==
    IF prop \in DOMAIN own THEN own[prop]
    ELSE IF prop = "then" THEN UndefinedValue
    ELSE CallableOf(targetId, prop)

\* proxy[prop]: an array is a plain object, a package and the view have
\* their own traps, every other kind has the trap above.
Get(kind, own, targetId, prop) ==
    IF kind = "array" THEN OrdinaryGet(own, prop)
    ELSE IF kind = "package" THEN PackageGet(own, targetId, prop)
    ELSE IF kind = "view" THEN ViewGet(own, vwImports, prop)
    ELSE GetTrap(own, targetId, prop)

\* target[prop] = value on an ordinary, extensible object.
OrdinarySet(own, prop, value) ==
    [p \in DOMAIN own \cup {prop} |-> IF p = prop THEN value ELSE own[p]]

\* The error of the set trap of createJavaObject: its message names the
\* property and gateway.setField.
SetFieldError(prop) == <<"thrown", "Error", "setField", prop>>

\* The set trap of createJavaObject: <<own properties after, outcome>>.
SetTrap(own, prop, value) ==
    IF In(own, prop)
    THEN <<OrdinarySet(own, prop, value), <<"assigned">>>>
    ELSE <<own, SetFieldError(prop)>>

\* proxy[prop] = value: only createJavaObject installs a set trap.  Without
\* one the target is assigned; a property that is not writable keeps its
\* value, silently in sloppy code and with a TypeError in strict code.
PxAssign(prop, value) ==
    /\ pxKind \in AllKinds
    /\ IF pxKind = "object"
       THEN /\ pxOwn' = SetTrap(pxOwn, prop, value)[1]
            /\ pxResult' = SetTrap(pxOwn, prop, value)[2]
       ELSE IF prop \in ReadOnly(pxKind)
       THEN /\ pxOwn' = pxOwn
            /\ pxResult' \in {<<"ignored">>,
                               <<"thrown", "TypeError", "assign", prop>>}
       ELSE /\ pxOwn' = OrdinarySet(pxOwn, prop, value)
            /\ pxResult' = <<"assigned">>
    /\ UNCHANGED <<pxKind, pxTargetId, pxSent>>
    /\ UNCHANGED notPx

\* proxy[prop] read by the caller.
PxRead(prop) ==
    /\ pxKind \in AllKinds
    /\ pxResult' = <<"read", prop, Get(pxKind, pxOwn, pxTargetId, prop)>>
    /\ UNCHANGED <<pxKind, pxTargetId, pxOwn, pxSent>>
    /\ UNCHANGED notPx

\* proxy[prop](...): the value read is called; a wrapper's method and the
\* trap's arrow function send a command to the target they hold, a class
\* proxy sends the constructor command, a package proxy raises.
PxCall(prop) ==
    /\ pxKind \in AllKinds
    /\ Len(pxSent) < MaxSent
    /\ LET f == Get(pxKind, pxOwn, pxTargetId, prop)
       IN  IF f[1] \in {"method", "callable"}
           THEN /\ pxSent' = Append(pxSent, [by |-> "proxy", target |-> f[2],
                                             name |-> f[3]])
                /\ pxResult' = <<"sent">>
           ELSE IF f[1] = "proxy" /\ f[2] = "class"
           THEN /\ pxSent' = Append(pxSent, [by |-> "proxy", target |-> f[3],
                                             name |-> "<init>"])
                /\ pxResult' = <<"sent">>
           ELSE IF f[1] = "proxy"
           THEN /\ pxSent' = pxSent
                /\ pxResult' = <<"thrown", "Error", "call", prop>>
           ELSE IF f[1] = "native"
           THEN /\ pxSent' = pxSent
                /\ pxResult' = <<"returned">>
           ELSE /\ pxSent' = pxSent
                /\ pxResult' = <<"thrown", "TypeError", "call", prop>>
    /\ UNCHANGED <<pxKind, pxTargetId, pxOwn>>
    /\ UNCHANGED notPx

\* gateway.setField(proxy, name, value): the client reads proxy._targetId
\* and sends the field command to it.
PxSetField ==
    /\ pxKind \in ProxyKinds
    /\ Len(pxSent) < MaxSent
    /\ LET id == Get(pxKind, pxOwn, pxTargetId, "_targetId")
       IN  /\ pxSent' = Append(pxSent, [by |-> "client", target |-> id[2],
                                        name |-> "setField"])
           /\ pxResult' = <<"sent">>
    /\ UNCHANGED <<pxKind, pxTargetId, pxOwn>>
    /\ UNCHANGED notPx

\* A proxy as its constructor returns it.
PxInit ==
    /\ pxKind \in AllKinds
    /\ pxTargetId \in CASE pxKind = "class" ->
                             {STATIC_PREFIX \o fqn : fqn \in Fqns}
                        [] pxKind = "package" -> PackageNames
                        [] pxKind = "view" -> {DEFAULT_JVM_ID}
                        [] OTHER -> TargetIds
    /\ pxOwn = OwnAtCreation(pxKind, pxTargetId)
    /\ pxSent = <<>>
    /\ pxResult = <<"none">>

\* The proxy of a machine that rests.
PxRest ==
    /\ pxKind = "none"
    /\ pxTargetId = ""
    /\ pxOwn = <<>>
    /\ pxSent = <<>>
    /\ pxResult = <<"none">>

PxNext ==
    \/ \E prop \in PxProps, value \in AssignValues : PxAssign(prop, value)
    \/ \E prop \in PxProps : PxRead(prop)
    \/ \E prop \in PxProps : PxCall(prop)
    \/ PxSetField

----------------------------------------------------------------------------
(***************************************************************************)
(* The namespace: JVMView and createJavaPackage of jvmView.js.  A dotted   *)
(* name is a string; a property read gives a value or a further proxy.     *)
(***************************************************************************)
\* The most javaImport/removeImport calls made on the view.
MaxViewCmds == 2

\* The most property reads the caller makes.
MaxReads == 3

\* proxy[prop] for the view or a package.
HeldGet(proxy, imports, prop) ==
    IF proxy[2] = "view" THEN ViewGet(ViewOwn(proxy[3]), imports, prop)
    ELSE PackageGet(PackageOwn(proxy[3]), proxy[3], prop)

\* The caller reads a property of the view or package it holds and holds
\* the result.
VwRead(prop) ==
    /\ vwHeld[1] = "proxy"
    /\ vwHeld[2] \in {"view", "package"}
    /\ vwReads < MaxReads
    /\ vwReads' = vwReads + 1
    /\ vwHeld' = HeldGet(vwHeld, vwImports, prop)
    /\ UNCHANGED <<vwImports, vwPending, vwSent, vwResult>>
    /\ UNCHANGED notVw

\* The caller takes the view again.
VwBack ==
    /\ vwHeld # ViewProxyOf(DEFAULT_JVM_ID)
    /\ vwHeld' = ViewProxyOf(DEFAULT_JVM_ID)
    /\ UNCHANGED <<vwImports, vwPending, vwSent, vwResult, vwReads>>
    /\ UNCHANGED notVw

\* The lines of the command javaImport and removeImport build.
ViewCommand(sub, id, fqn) == <<"j", sub, id, fqn, "e">>

\* javaImport(fqn) up to its await: the command is sent.
VwJavaImport(fqn) ==
    /\ Len(vwSent) < MaxViewCmds
    /\ vwSent' = Append(vwSent, ViewCommand("i", DEFAULT_JVM_ID, fqn))
    /\ vwPending' = Append(vwPending, <<"import", fqn>>)
    /\ UNCHANGED <<vwImports, vwHeld, vwResult, vwReads>>
    /\ UNCHANGED notVw

\* removeImport(fqn) up to its await: the command is sent.
VwRemoveImport(fqn) ==
    /\ Len(vwSent) < MaxViewCmds
    /\ vwSent' = Append(vwSent, ViewCommand("r", DEFAULT_JVM_ID, fqn))
    /\ vwPending' = Append(vwPending, <<"remove", fqn>>)
    /\ UNCHANGED <<vwImports, vwHeld, vwResult, vwReads>>
    /\ UNCHANGED notVw

\* The last part of a dotted name.
SimpleName(fqn) == Split(fqn)[Len(Split(fqn))]

\* Map.prototype.set and Map.prototype.delete.
MapSet(map, key, value) ==
    [k \in DOMAIN map \cup {key} |-> IF k = key THEN value ELSE map[k]]
MapDelete(map, key) == [k \in DOMAIN map \ {key} |-> map[k]]

\* javaImport after its await: the answer is decoded, which raises unless
\* it is a success; then the simple name is registered.
ImportResumes(fqn, answer) ==
    IF IsThrown(decodeReturnValue(answer, <<>>))
    THEN /\ vwResult' = <<"thrown", fqn>>
         /\ vwImports' = vwImports
    ELSE /\ vwResult' = <<"returned", fqn>>
         /\ vwImports' = IF SimpleName(fqn) # "*"
                         THEN MapSet(vwImports, SimpleName(fqn), fqn)
                         ELSE vwImports

\* removeImport after its await: the answer is not looked at; the simple
\* name is deleted.
RemoveResumes(fqn, answer) ==
    /\ vwResult' = <<"returned", fqn>>
    /\ vwImports' = IF SimpleName(fqn) # "*"
                    THEN MapDelete(vwImports, SimpleName(fqn))
                    ELSE vwImports

\* The answers of the host: success, an error, an empty line.
ViewAnswers == {<<"!", "y", "v">>, <<"!", "x", "r", "o", "0">>, <<>>}

\* _sendCommand resolves with the host's answer to the oldest call.
VwAnswer(answer) ==
    /\ vwPending # <<>>
    /\ IF Head(vwPending)[1] = "import"
       THEN ImportResumes(Head(vwPending)[2], answer)
       ELSE RemoveResumes(Head(vwPending)[2], answer)
    /\ vwPending' = Tail(vwPending)
    /\ UNCHANGED <<vwSent, vwHeld, vwReads>>
    /\ UNCHANGED notVw

\* _sendCommand rejects (the connection failed): the oldest call raises
\* at its await.
VwSendFails ==
    /\ vwPending # <<>>
    /\ vwResult' = <<"thrown", Head(vwPending)[2]>>
    /\ vwPending' = Tail(vwPending)
    /\ UNCHANGED <<vwImports, vwSent, vwHeld, vwReads>>
    /\ UNCHANGED notVw

\* new JVMView(gatewayClient): no imports, the caller holds the view.
VwInit ==
    /\ vwImports = <<>>
    /\ vwPending = <<>>
    /\ vwSent = <<>>
    /\ vwHeld = ViewProxyOf(DEFAULT_JVM_ID)
    /\ vwResult = <<"none">>
    /\ vwReads = 0

\* The view of a machine that rests.
VwRest ==
    /\ vwImports = <<>>
    /\ vwPending = <<>>
    /\ vwSent = <<>>
    /\ vwHeld = <<"none">>
    /\ vwResult = <<"none">>
    /\ vwReads = 0

VwNext ==
    \/ \E prop \in VwProps : VwRead(prop)
    \/ VwBack
    \/ \E fqn \in ImportNames : VwJavaImport(fqn)
    \/ \E fqn \in ImportNames : VwRemoveImport(fqn)
    \/ \E answer \in ViewAnswers : VwAnswer(answer)
    \/ VwSendFails

----------------------------------------------------------------------------
(***************************************************************************)
(* The calls of the gateway client (javaObject.js, gatewayMethods).        *)
(*                                                                         *)
(* callMethod and callConstructor build the command text, hand it to       *)
(* _sendCommand, and decode the response line they are resumed with.  One  *)
(* call is followed from its start to its settlement; the connection that  *)
(* carries the command is the machine of GatewayConnection above, here it  *)
(* answers with any line of GcAnswers or fails.                            *)
(***************************************************************************)
MaxCalls == 2       \* calls made on the client

CALL_COMMAND_NAME == <<"c", NL>>
CONSTRUCTOR_COMMAND_NAME == <<"i", NL>>
END_COMMAND_PART == <<NL>>
ENTRY_POINT_OBJECT_ID == <<"t">>

\* buildArgsCommand(args, proxyPool) on the pool with this counter: the text
\* s it returns, or what it throws, and the pool it leaves.  Encoding a
\* callback proxy registers it; a part that throws ends the loop.
RECURSIVE buildArgsCommand(_, _, _)
buildArgsCommand(args, pool, counter) ==
    IF args = <<>> THEN [s |-> <<>>, pool |-> pool, counter |-> counter]
    ELSE LET value == Head(args)
             id == RegisterId(counter, pool)
             part == encodeCommandPart(value, id)
             rest == IF value = ProxyValue
                     THEN buildArgsCommand(Tail(args), PoolSet(pool, id, 0), counter + 1)
                     ELSE buildArgsCommand(Tail(args), pool, counter)
         IN  IF IsThrown(part) THEN [s |-> part, pool |-> pool, counter |-> counter]
             ELSE [s |-> IF IsThrown(rest.s) THEN rest.s ELSE part \o rest.s,
                   pool |-> rest.pool, counter |-> rest.counter]

\* callMethod with the arguments encoded from the last to the first.
callMethodArgsReversed(targetId, methodName, args) ==
    LET reversed == [k \in 1..Len(args) |-> args[Len(args) + 1 - k]]
        argsStr == buildArgsCommand(reversed, gcPool, gcCounter).s
    IN  IF IsThrown(argsStr) THEN argsStr
        ELSE CALL_COMMAND_NAME \o targetId \o END_COMMAND_PART
                \o methodName \o END_COMMAND_PART
                \o argsStr
                \o <<END>> \o END_COMMAND_PART

\* The command text callMethod builds on the pool of the client, or what
\* buildArgsCommand throws.
callMethod(targetId, methodName, args) ==
    LET argsStr == buildArgsCommand(args, gcPool, gcCounter).s
    IN  IF IsThrown(argsStr) THEN argsStr
        ELSE CALL_COMMAND_NAME \o targetId \o END_COMMAND_PART
                \o methodName \o END_COMMAND_PART
                \o argsStr
                \o <<END>> \o END_COMMAND_PART

\* callConstructor with the command name of callMethod.
callConstructorAsCall(classFqn, args) ==
    LET argsStr == buildArgsCommand(args, gcPool, gcCounter).s
    IN  IF IsThrown(argsStr) THEN argsStr
        ELSE CALL_COMMAND_NAME \o classFqn \o END_COMMAND_PART
                \o argsStr
                \o <<END>> \o END_COMMAND_PART

\* The command text callConstructor builds on the pool of the client, or
\* what buildArgsCommand throws.
callConstructor(classFqn, args) ==
    LET argsStr == buildArgsCommand(args, gcPool, gcCounter).s
    IN  IF IsThrown(argsStr) THEN argsStr
        ELSE CONSTRUCTOR_COMMAND_NAME \o classFqn \o END_COMMAND_PART
                \o argsStr
                \o <<END>> \o END_COMMAND_PART

\* The inputs of the calls.
StringBuilderFqn ==
    <<"j", "a", "v", "a", ".", "l", "a", "n", "g", ".",
      "S", "t", "r", "i", "n", "g", "B", "u", "i", "l", "d", "e", "r">>
GcTargetIds == {ENTRY_POINT_OBJECT_ID, <<"o", "5">>}
GcMethodNames == {<<"a", "d", "d">>, <<"s", "i", "z", "e">>}
GcClassFqns == {StringBuilderFqn, <<"A">>}
\* Integers at the edges of the 32-bit and the 64-bit range, by their digits.
Int32Max == <<"2", "1", "4", "7", "4", "8", "3", "6", "4", "7">>
Int32MaxPlus1 == <<"2", "1", "4", "7", "4", "8", "3", "6", "4", "8">>
Int32MinMinus1 == <<"2", "1", "4", "7", "4", "8", "3", "6", "4", "9">>
TwoTo62 ==
    <<"4", "6", "1", "1", "6", "8", "6", "0", "1", "8", "4", "2", "7", "3", "8", "7", "9", "0", "4">>
Int64Max ==
    <<"9", "2", "2", "3", "3", "7", "2", "0", "3", "6", "8", "5", "4", "7", "7", "5", "8", "0", "7">>
Int64MaxPlus1 ==
    <<"9", "2", "2", "3", "3", "7", "2", "0", "3", "6", "8", "5", "4", "7", "7", "5", "8", "0", "8">>
Int64MinMinus1 ==
    <<"9", "2", "2", "3", "3", "7", "2", "0", "3", "6", "8", "5", "4", "7", "7", "5", "8", "0", "9">>
TwoTo64 ==
    <<"1", "8", "4", "4", "6", "7", "4", "4", "0", "7", "3", "7", "0", "9", "5", "5", "1", "6", "1", "6">>

\* The arguments of the calls of SpecCall.
GcArgLists ==
    { <<>>,
      <<IntValue(3), IntValue(4)>>,
      <<IntValue(4), IntValue(3)>>,
      <<StrValue(<<"h", "i">>)>>,
      <<StrValue(<<"a", NL>>), NullValue>> }

\* The values of each kind the encoder tells apart, with integers around the
\* edges of its ranges, and the argument lists made of them.
MaxArgs == 2        \* arguments of one call
ArgValues ==
    { NullValue, IntValue(3), StrValue(<<"a", NL>>), BoolValue(TRUE),
      NumberValue(TRUE, <<"5">>),
      NumberValue(FALSE, Int32Max),
      NumberValue(FALSE, Int32MaxPlus1),
      NumberValue(TRUE, Int32MaxPlus1),
      NumberValue(TRUE, Int32MinMinus1),
      NumberValue(FALSE, TwoTo62),
      NumberValue(TRUE, Int64MaxPlus1),
      NumberValue(FALSE, Int64MaxPlus1),
      NumberValue(FALSE, TwoTo64),
      BigIntValue(FALSE, <<"5">>),
      BigIntValue(FALSE, Int64Max),
      BigIntValue(FALSE, Int64MaxPlus1),
      BigIntValue(TRUE, Int64MinMinus1),
      FractionValue(<<"1", ".", "5">>),
      JavaProxyOf("object", <<"o", "5">>),
      ProxyValue,
      ArrayValue }
ArgLists == UNION {[1..n -> ArgValues] : n \in 0..MaxArgs}

\* The response lines the connection resumes a call with.
GcAnswers ==
    { <<"!", "y", "i", "7">>,           \* 7
      <<"y", "i", "7">>,                \* 7, without the leading '!'
      <<"!", "y", "s", "h", "i">>,      \* "hi"
      <<"!", "y", "v">>,                \* void
      <<"!", "y">>,                     \* success and nothing else
      <<"!", "y", "r", "o", "5">>,      \* the object o5
      <<"!", "y", "l", "o", "5">>,      \* the list o5
      <<"!", "y", "h", "o", "5">>,      \* the set o5
      <<"!", "y", "a", "o", "6">>,      \* the map o6
      <<"!", "y", "t", "o", "6">>,      \* the array o6
      <<"!", "y", "g", "o", "6">>,      \* the iterator o6
      <<"!", "y", "b", "t", "r", "u", "e">>,    \* true
      <<"!", "y", "q", "o", "5">>,      \* a tag that is no type prefix
      <<"!", "r", "o", "5">>,           \* a reference without response code
      <<"!", "x", "r", "o", "0">>,      \* an exception, registered as o0
      <<"!", "x", "q">>,                \* an error whose payload is no value
      <<"!", "x">>,                     \* an error without payload
      <<"!", "z", "o", "u", "t">>,      \* a fatal error
      <<"!">>,                          \* no response code
      <<>> }                            \* an empty line

\* The proxies that decoding to outcome v constructed: a returned wrapper,
\* or the wrapper of the exception a Js4JJavaError carries.
IsJavaProxy(v) == v[1] = "javaProxy"
Constructed(v) ==
    IF IsJavaProxy(v) THEN <<v>>
    ELSE IF IsThrown(v) /\ v[2] = "Js4JJavaError" /\ IsJavaProxy(v[4]) THEN <<v[4]>>
    ELSE <<>>

\* How an async call settles with outcome v of its decoding.
Settled(v) == IF IsThrown(v) THEN v ELSE <<"returns", v>>

\* A call from its start to its await: buildArgsCommand works on the pool;
\* when it throws the call rejects and nothing is handed to _sendCommand,
\* else the command is handed over and the call waits.
GcStart(args, command) ==
    /\ gcPc # "waiting"
    /\ gcCalls < MaxCalls
    /\ gcPool' = buildArgsCommand(args, gcPool, gcCounter).pool
    /\ gcCounter' = buildArgsCommand(args, gcPool, gcCounter).counter
    /\ IF IsThrown(command)
       THEN gcSent' = <<>> /\ gcPc' = "threw" /\ gcResult' = command
       ELSE gcSent' = command /\ gcPc' = "waiting" /\ gcResult' = <<"none">>
    /\ gcCalls' = gcCalls + 1
    /\ UNCHANGED <<gcAnswer, gcProxies>>
    /\ UNCHANGED notGc

\* client.callMethod(targetId, methodName, args) up to its await.
GcCallMethod(targetId, methodName, args) ==
    /\ gcCall' = <<"callMethod", targetId, methodName, args>>
    /\ GcStart(args, callMethod(targetId, methodName, args))

\* client.callConstructor(classFqn, args) up to its await.
GcCallConstructor(classFqn, args) ==
    /\ gcCall' = <<"callConstructor", classFqn, args>>
    /\ GcStart(args, callConstructor(classFqn, args))

\* _sendCommand resolves with a response line: the call decodes it and
\* returns or throws.
GcAnswer(answer) ==
    /\ gcPc = "waiting"
    /\ LET v == decodeReturnValue(answer, gcPool) IN
         /\ gcResult' = Settled(v)
         /\ gcProxies' = gcProxies \o Constructed(v)
    /\ gcAnswer' = answer
    /\ gcPc' = "settled"
    /\ UNCHANGED <<gcCall, gcSent, gcPool, gcCounter, gcCalls>>
    /\ UNCHANGED notGc

\* _sendCommand rejects: the call rejects with the same error.
GcSendFails ==
    /\ gcPc = "waiting"
    /\ gcResult' = <<"throws", "Js4JConnectionError">>
    /\ gcPc' = "settled"
    /\ UNCHANGED <<gcCall, gcSent, gcAnswer, gcProxies, gcPool, gcCounter, gcCalls>>
    /\ UNCHANGED notGc

\* The call of SpecArgs: one call of a method of the entry point with any
\* argument list.
GcCallOnce(args) ==
    /\ gcCalls = 0
    /\ GcCallMethod(ENTRY_POINT_OBJECT_ID, <<"m">>, args)

GcInit ==
    /\ gcCall = <<"none">>
    /\ gcPc = "idle"
    /\ gcSent = <<>>
    /\ gcAnswer = <<>>
    /\ gcResult = <<"none">>
    /\ gcProxies = <<>>
    /\ gcPool = <<>>
    /\ gcCounter = 0
    /\ gcCalls = 0

\* A client whose pool holds the callback proxies registered before: none,
\* or one.
GcInitPool ==
    /\ gcCall = <<"none">>
    /\ gcPc = "idle"
    /\ gcSent = <<>>
    /\ gcAnswer = <<>>
    /\ gcResult = <<"none">>
    /\ gcProxies = <<>>
    /\ gcCounter \in 0..1
    /\ gcPool = [id \in {ProxyId(n) : n \in 0..(gcCounter - 1)} |-> 0]
    /\ gcCalls = 0

\* The client of a machine that rests.
GcRest ==
    /\ gcCall = <<"none">>
    /\ gcPc = "rest"
    /\ gcSent = <<>>
    /\ gcAnswer = <<>>
    /\ gcResult = <<"none">>
    /\ gcProxies = <<>>
    /\ gcPool = <<>>
    /\ gcCounter = 0
    /\ gcCalls = 0

GcNext ==
    \/ \E targetId \in GcTargetIds, methodName \in GcMethodNames,
          args \in GcArgLists : GcCallMethod(targetId, methodName, args)
    \/ \E classFqn \in GcClassFqns, args \in GcArgLists :
          GcCallConstructor(classFqn, args)
    \/ \E answer \in GcAnswers : GcAnswer(answer)
    \/ GcSendFails

GcArgsNext ==
    \/ \E args \in ArgLists : GcCallOnce(args)
    \/ \E answer \in {<<"!", "y", "v">>, <<"!", "x", "r", "o", "0">>} : GcAnswer(answer)
    \/ GcSendFails

----------------------------------------------------------------------------
(***************************************************************************)
(* RequestQueue (connection.js) with tasks of any kind.                    *)
(*                                                                         *)
(* run(task) pushes the task and calls _flush, which runs without          *)
(* suspension up to `await task()`.  A task returns a promise that         *)
(* resolves, rejects or stays pending, or throws before it returns; the    *)
(* continuation of _flush is a microtask that runs once the promise has    *)
(* settled.                                                                *)
(***************************************************************************)
MaxTasks == 4       \* run() calls made on the queue

Tasks == 1..MaxTasks
TaskKinds == {"async", "throws"}

\* The loop of _flush on the queue q: tasks are shifted and called until one
\* returns a promise to await, or the queue is empty.  A task that throws is
\* caught and rejects the promise of its run(); the loop goes on.
RECURSIVE RqFlushLoop(_, _, _, _)
RqFlushLoop(q, task, started, kinds) ==
    IF q = <<>>
    THEN [queue |-> q, task |-> task, started |-> started,
          running |-> FALSE, pc |-> "idle", current |-> 0]
    ELSE IF kinds[Head(q)] = "throws"
    THEN RqFlushLoop(Tail(q), [task EXCEPT ![Head(q)] = "rejected"],
                     Append(started, Head(q)), kinds)
    ELSE [queue |-> Tail(q), task |-> [task EXCEPT ![Head(q)] = "executing"],
          started |-> Append(started, Head(q)),
          running |-> TRUE, pc |-> "awaiting", current |-> Head(q)]

\* The queue takes the state r that the loop of _flush left.
RqBecomes(r) ==
    /\ rqQueue' = r.queue
    /\ rqTask' = r.task
    /\ rqStarted' = r.started
    /\ rqRunning' = r.running
    /\ rqPc' = r.pc
    /\ rqCurrent' = r.current

\* run(task): the task is pushed and _flush is called, which returns at
\* once when it is running already.
RqRun(kind) ==
    LET k == rqSubmitted + 1
        q == Append(rqQueue, k)
        task == [rqTask EXCEPT ![k] = "queued"]
        kinds == [rqKind EXCEPT ![k] = kind]
    IN  /\ rqSubmitted < MaxTasks
        /\ rqSubmitted' = k
        /\ rqKind' = kinds
        /\ IF rqRunning
           THEN /\ rqQueue' = q
                /\ rqTask' = task
                /\ UNCHANGED <<rqRunning, rqPc, rqCurrent, rqStarted>>
           ELSE RqBecomes(RqFlushLoop(q, task, rqStarted, kinds))
        /\ UNCHANGED rqOk
        /\ UNCHANGED notRq

\* The promise of the task that _flush awaits settles.
RqTaskSettles(ok) ==
    /\ rqPc = "awaiting"
    /\ rqPc' = "resume"
    /\ rqOk' = ok
    /\ rqTask' = [rqTask EXCEPT ![rqCurrent] = "settled"]
    /\ UNCHANGED <<rqQueue, rqRunning, rqCurrent, rqKind, rqStarted, rqSubmitted>>
    /\ UNCHANGED notRq

\* _flush without its catch block: a task that rejects ends _flush with
\* _running still set, and the promise of its run() stays pending.
RqFlushResumeNoCatch ==
    /\ rqPc = "resume"
    /\ IF rqOk
       THEN RqBecomes(RqFlushLoop(rqQueue, [rqTask EXCEPT ![rqCurrent] = "resolved"],
                                  rqStarted, rqKind))
       ELSE /\ rqPc' = "idle"
            /\ rqCurrent' = 0
            /\ UNCHANGED <<rqQueue, rqTask, rqStarted, rqRunning>>
    /\ UNCHANGED <<rqKind, rqOk, rqSubmitted>>
    /\ UNCHANGED notRq

\* _flush resumes after `await task()`: the promise of run() resolves or
\* rejects as the task did, and the loop goes on.
RqFlushResume ==
    /\ rqPc = "resume"
    /\ RqBecomes(RqFlushLoop(rqQueue,
                     [rqTask EXCEPT ![rqCurrent] = IF rqOk THEN "resolved" ELSE "rejected"],
                     rqStarted, rqKind))
    /\ UNCHANGED <<rqKind, rqOk, rqSubmitted>>
    /\ UNCHANGED notRq

RqInit ==
    /\ rqQueue = <<>>
    /\ rqRunning = FALSE
    /\ rqPc = "idle"
    /\ rqCurrent = 0
    /\ rqTask = [k \in Tasks |-> "unsubmitted"]
    /\ rqKind = [k \in Tasks |-> "async"]
    /\ rqOk = TRUE
    /\ rqStarted = <<>>
    /\ rqSubmitted = 0

\* The queue of a machine that rests.
RqRest ==
    /\ rqQueue = <<>>
    /\ rqRunning = FALSE
    /\ rqPc = "rest"
    /\ rqCurrent = 0
    /\ rqTask = <<>>
    /\ rqKind = <<>>
    /\ rqOk = TRUE
    /\ rqStarted = <<>>
    /\ rqSubmitted = 0

RqNext ==
    \/ \E kind \in TaskKinds : RqRun(kind)
    \/ \E ok \in BOOLEAN : RqTaskSettles(ok)
    \/ RqFlushResume

----------------------------------------------------------------------------
(***************************************************************************)
(* Specifications: one machine runs, the others rest.                      *)
(***************************************************************************)
EscRest ==
    /\ escIn = <<>>
    /\ escMid = <<>>
    /\ escOut = <<>>
    /\ escPc = "rest"

InitEscape ==
    EscInit /\ ConnRest /\ PoolRest /\ CbRest /\ SrvRest /\ PxRest /\ VwRest /\ GcRest
        /\ RqRest
NextEscape == EscNext
SpecEscape == InitEscape /\ [][NextEscape]_vars

InitConn ==
    ConnInit /\ EscRest /\ PoolRest /\ CbRest /\ SrvRest /\ PxRest /\ VwRest /\ GcRest
        /\ RqRest
NextConn == ConnNext
SpecConn == InitConn /\ [][NextConn]_vars

InitPool ==
    PoolInit /\ EscRest /\ ConnRest /\ CbRest /\ SrvRest /\ PxRest /\ VwRest /\ GcRest
        /\ RqRest
NextPool == PoolNext
SpecPool == InitPool /\ [][NextPool]_vars

\* The pool with callers that give back what they hold: the call running
\* on a connection settles, and the finally block of withConnection
\* releases the connection.
FairPool == \A p \in Callers : WF_vars(\E ok \in BOOLEAN : WithConnectionSettles(p, ok))
SpecPoolFair == SpecPool /\ FairPool

InitCallback ==
    CbInit /\ EscRest /\ ConnRest /\ PoolRest /\ SrvRest /\ PxRest /\ VwRest /\ GcRest
        /\ RqRest
NextCallback == CbNext
SpecCallback == InitCallback /\ [][NextCallback]_vars

\* The callback connection when the methods of the registered objects return
\* callback proxies, so that every reply to a call registers an object.
\* The callback connection with the event loop running: a suspended
\* _handleCommand is resumed when the promise of its method settles.  No
\* data need arrive: the host may stay silent.
FairCallback ==
    \A i \in 1..MaxHostCmds :
        WF_vars(MethodResolves(i) \/ \E err \in Failures : MethodRejects(i, err))
SpecCallbackFair == SpecCallback /\ FairCallback

InitRegistry == InitCallback /\ retValue = ProxyValue
SpecRegistry == InitRegistry /\ [][NextCallback]_vars

InitServer ==
    SrvInit /\ EscRest /\ ConnRest /\ PoolRest /\ CbRest /\ PxRest /\ VwRest /\ GcRest
        /\ RqRest
NextServer == SrvNext
SpecServer == InitServer /\ [][NextServer]_vars

InitProxy ==
    PxInit /\ EscRest /\ ConnRest /\ PoolRest /\ CbRest /\ SrvRest /\ VwRest /\ GcRest
        /\ RqRest
NextProxy == PxNext
SpecProxy == InitProxy /\ [][NextProxy]_vars

InitView ==
    VwInit /\ EscRest /\ ConnRest /\ PoolRest /\ CbRest /\ SrvRest /\ PxRest /\ GcRest
        /\ RqRest
NextView == VwNext
SpecView == InitView /\ [][NextView]_vars

InitCall ==
    GcInit /\ EscRest /\ ConnRest /\ PoolRest /\ CbRest /\ SrvRest /\ PxRest /\ VwRest
        /\ RqRest
NextCall == GcNext
SpecCall == InitCall /\ [][NextCall]_vars

InitArgs ==
    GcInitPool /\ EscRest /\ ConnRest /\ PoolRest /\ CbRest /\ SrvRest /\ PxRest /\ VwRest
        /\ RqRest
NextArgs == GcArgsNext
SpecArgs == InitArgs /\ [][NextArgs]_vars

\* The request queue with the event loop running: the continuation of
\* _flush runs once the task it awaits has settled.  Nothing makes a task
\* settle.
InitQueue ==
    RqInit /\ EscRest /\ ConnRest /\ PoolRest /\ CbRest /\ SrvRest /\ PxRest /\ VwRest
        /\ GcRest
NextQueue == RqNext
FairQueue == WF_vars(RqFlushResume)
SpecQueue == InitQueue /\ [][NextQueue]_vars /\ FairQueue

----------------------------------------------------------------------------
(***************************************************************************)
(* Claims.                                                                 *)
(***************************************************************************)

\* C1: in every state reachable by interleaved acquire() and release()
\* calls, also with acquires suspended while a connection opens, the number
\* of connections handed out plus the number of idle ones is at most the
\* pool's maximum.
C1_PoolBound ==
    /\ active + Len(idle) <= maxConnections
    /\ Cardinality({p \in DOMAIN pc : pc[p] = "holding"}) + Len(idle) <= maxConnections

\* The commands written and not yet settled.
InFlight == {k \in DOMAIN cmdState : cmdState[k] = "inflight"}

\* C2: on one GatewayConnection at most one command is in flight at any
\* time: when a command is written, every command written before it has
\* received its response line or has failed.
C2_OneInFlight ==
    /\ Cardinality(InFlight) <= 1
    /\ \A i \in 1..(Len(written) - 1) :
           cmdState[written[i]] \in {"resolved", "rejected"}

\* A second command waits in the queue while the first is in flight, and is
\* written once the first has its line.
C2_Witness ==
    /\ nCalled = 2
    /\ written = <<1, 2>>
    /\ cmdState[1] = "resolved"
    /\ cmdState[2] = "inflight"

\* The positions of the newlines of s, and the k-th newline-terminated line
\* of s: the bytes between the (k-1)-th newline and the k-th.
NewlinesOf(s) == {i \in 1..Len(s) : s[i] = NL}
NthNewline(s, k) ==
    IF k = 0 THEN 0
    ELSE CHOOSE i \in NewlinesOf(s) : Cardinality({j \in NewlinesOf(s) : j <= i}) = k
LineOf(s, k) == SubSeq(s, NthNewline(s, k - 1) + 1, NthNewline(s, k) - 1)
PlaceWritten(k) == CHOOSE i \in 1..Len(written) : written[i] = k
Resolved == {k \in DOMAIN cmdState : cmdState[k] = "resolved"}

ResponseCode(line) ==
    LET rest == IF line # <<>> /\ Head(line) = RETURN_MESSAGE THEN Tail(line) ELSE line
    IN  IF rest = <<>> THEN "" ELSE Head(rest)

\* The commands of a byte stream: its newline-terminated lines, cut after
\* each line equal to `e`.
LinesOf(s) == [k \in 1..Cardinality(NewlinesOf(s)) |-> LineOf(s, k)]
RECURSIVE CommandsOf(_)
CommandsOf(lines) ==
    IF \E k \in 1..Len(lines) : lines[k] = <<END>>
    THEN LET k == CHOOSE k \in 1..Len(lines) :
                      lines[k] = <<END>> /\ \A j \in 1..(k - 1) : lines[j] # <<END>>
         IN  <<SubSeq(lines, 1, k)>> \o CommandsOf(SubSeq(lines, k + 1, Len(lines)))
    ELSE <<>>

\* The places of the log where the handling of a command began, and the
\* lists of lines handled, in order.
HandleEvents == {x \in 1..Len(cbLog) : cbLog[x][1] = "handle"}
ReplyEvents == {x \in 1..Len(cbLog) : cbLog[x][1] = "reply"}
RECURSIVE HandledFrom(_)
HandledFrom(x) ==
    IF x > Len(cbLog) THEN <<>>
    ELSE IF cbLog[x][1] = "handle" THEN <<cbLog[x][3]>> \o HandledFrom(x + 1)
    ELSE HandledFrom(x + 1)

\* C4: a command on a callback connection is parsed to the same list of
\* lines whatever way its bytes are split into chunks: the lists of lines
\* handled are the first commands of the byte stream received.
C4_ParseIgnoresChunking ==
    LET handled == HandledFrom(1)
        sent == CommandsOf(LinesOf(cbReceived))
    IN  /\ Len(handled) <= Len(sent)
        /\ \A i \in 1..Len(handled) : handled[i] = sent[i]

\* C5: on one callback connection, for commands A then B (each a call or a
\* collect command), the handling of B does not begin before the reply to A
\* is written, and the replies are written in the order of the commands.
C5_SequentialHandling ==
    /\ \A x, y \in HandleEvents :
           (x < y /\ cbLog[x][3][1] \in {<<"c">>, <<"g">>}
                  /\ cbLog[y][3][1] \in {<<"c">>, <<"g">>}) =>
               \E z \in ReplyEvents : x < z /\ z < y /\ cbLog[z][2] = cbLog[x][2]
    /\ \A x, y \in ReplyEvents : x < y => cbLog[x][2] < cbLog[y][2]

\* C6: when the callback server handles a complete command whose first line
\* is neither `c` nor `g`, it writes an error reply and leaves the
\* connection open.
C6_UnknownCommandGetsError ==
    [][(/\ cbHandled' = cbHandled + 1
        /\ \E x \in 1..Len(cbLog') :
               /\ cbLog'[x][1] = "handle"
               /\ cbLog'[x][2] = cbHandled'
               /\ cbLog'[x][3][1] \notin {<<"c">>, <<"g">>})
       => /\ cbSocket' = "open"
          /\ \E z \in 1..Len(cbLog') :
                 /\ cbLog'[z][1] = "reply"
                 /\ cbLog'[z][2] = cbHandled'
                 /\ StartsWith(cbLog'[z][3], <<RETURN_MESSAGE, ERROR>>)]_vars

\* C7: with an auth token, connect() succeeds iff the response code of the
\* line read in reply to the auth command is `y` (so `!yv` makes the
\* connection ready); with any other response code connect fails, the socket
\* is closed and no connection is handed out.
C7_AuthByResponseCode ==
    (authPc = "done" /\ cmdState[AuthCmd] = "resolved") =>
        IF ResponseCode(cmdResult[AuthCmd]) = SUCCESS
        THEN connPc = "ready"
        ELSE connPc = "failed" /\ Destroyed

\* C8: for every string s, also one holding newlines, backslashes, or a
\* backslash followed by the letter n, unescapeNewLines(escapeNewLines(s))
\* equals s.
C8_RoundTrip == escPc = "done" => escOut = escIn

\* The idle connections that are live, and the parked callers.
LiveIdle == {i \in 1..Len(idle) : IsLive(idle[i])}
Parked == {q \in DOMAIN pc : pc[q] = "parked"}

\* C9: acquire() hands out an idle connection whenever the idle set holds a
\* live one; it opens a connection only when no idle connection is live and
\* the active count is below the maximum; it parks the caller only when
\* neither applies.
C9_AcquireCases ==
    [][\A p \in DOMAIN pc :
          (pc[p] = "out" /\ pc'[p] # "out") =>
              /\ LiveIdle # {} =>
                     /\ pc'[p] = "holding"
                     /\ via'[p] = "idle"
                     /\ \E i \in LiveIdle : held'[p] = idle[i]
              /\ pc'[p] = "connecting" =>
                     (LiveIdle = {} /\ active < maxConnections)
              /\ pc'[p] = "parked" =>
                     (LiveIdle = {} /\ active >= maxConnections)]_vars

\* C10: release(conn) with a parked waiter resolves the waiter parked longest
\* with that same connection, leaves the other waiters parked, does not put
\* the connection in the idle set and leaves the active count unchanged.
C10_ReleaseToOldestWaiter ==
    [][\A p \in DOMAIN pc :
          (pc[p] = "holding" /\ pc'[p] = "out" /\ Parked # {}) =>
              LET w == CHOOSE q \in Parked : \A r \in Parked : parkedAt[q] <= parkedAt[r]
              IN  /\ pc'[w] = "holding"
                  /\ held'[w] = held[p]
                  /\ \A r \in Parked \ {w} : pc'[r] = "parked"
                  /\ idle' = idle
                  /\ active' = active]_vars

\* A release has handed its connection to the older of two parked waiters:
\* the younger one is still parked.
C10_Witness ==
    \E w, r \in DOMAIN pc :
        /\ pc[w] = "holding"
        /\ via[w] = "handover"
        /\ pc[r] = "parked"
        /\ parkedAt[w] < parkedAt[r]


\* The callers that hold a connection.
Holders == {p \in DOMAIN pc : pc[p] = "holding"}

\* C11: withConnection(f) releases the connection it acquired exactly once
\* when f settles, resolved or rejected (the releasing caller stops holding,
\* and either the oldest waiter holds the connection now or the active count
\* went down by one); it releases nothing when acquire() fails; so the active
\* count is the number of callers that hold a connection, and it is 0 when
\* every withConnection call has settled.
C11_ScopedRelease ==
    [][ /\ active' = Cardinality(Holders')
        /\ (\A p \in DOMAIN pc : pc'[p] = "out") => active' = 0
        /\ \A p \in DOMAIN pc :
              /\ (pc[p] = "holding" /\ pc'[p] = "out") =>
                    /\ lastOutcome' \in {"resolved", "rejected"}
                    /\ IF waiters # <<>>
                       THEN /\ active' = active
                            /\ held'[Head(waiters)] = held[p]
                            /\ Holders' = (Holders \ {p}) \cup {Head(waiters)}
                       ELSE /\ active' = active - 1
                            /\ Holders' = Holders \ {p}
              /\ (pc[p] = "connecting" /\ pc'[p] = "out") =>
                    /\ lastOutcome' = "acquireFailed"
                    /\ UNCHANGED <<active, idle, waiters>>
                    /\ Holders' = Holders
      ]_vars

\* Every call has settled, one of them with a rejected f, after a connection
\* went from one caller to a waiter and back to the idle set.
C11_Witness ==
    /\ lastOutcome = "rejected"
    /\ nAcquires >= 2
    /\ \A p \in DOMAIN pc : pc[p] = "out"
    /\ active = 0
    /\ idle # <<>>

\* C12: closeAll() closes the idle connections and empties the idle set; a
\* connection that a caller held when closeAll() ran is closed once its work
\* has returned, and it is never in the idle set afterwards: such a connection,
\* while it is open, is held by a caller and is not idle.
C12_CloseAllClosesReturned ==
    \A c \in atCloseAll :
        /\ \E p \in Holders : held[p] = c
        /\ \A i \in 1..Len(idle) : idle[i] # c


\* An 'error' or a 'close' event of the socket is delivered in this step.
SocketEvent ==
    \/ sock = "errored" /\ sock' = "closing"
    \/ sock = "closing" /\ sock' = "closed"

\* C13: a socket 'error' or 'close' event marks the connection closed, and
\* closed it stays; the read that is pending then is rejected with a network
\* error; every sendCommand called on a closed connection is rejected with a
\* network error and writes nothing to the socket.
C13_FailFastAfterSocketEvent ==
    [][ /\ closed => closed'
        /\ SocketEvent =>
              /\ closed'
              /\ readReject' = Null
              /\ (readReject # Null /\ cmdState[readReject] = "inflight") =>
                    /\ cmdState'[readReject] = "rejected"
                    /\ cmdErr'[readReject] = "network"
        /\ (closed /\ nCalled' = nCalled + 1) =>
              /\ cmdState'[nCalled'] = "rejected"
              /\ cmdErr'[nCalled'] = "network"
              /\ written' = written
              /\ writeCb' = writeCb
              /\ queue' = queue
      ]_vars

\* The first command was in flight when the socket failed and got a network
\* error; the second was sent afterwards and was rejected unwritten.
C13_Witness ==
    /\ sock = "closed"
    /\ closed
    /\ socket # "null"
    /\ nCalled = 2
    /\ written = <<1>>
    /\ cmdState[1] = "rejected" /\ cmdErr[1] = "network"
    /\ cmdState[2] = "rejected" /\ cmdErr[2] = "network"


EventsOf(log, kind, i) == {x \in 1..Len(log) : log[x][1] = kind /\ log[x][2] = i}
\* The lines of command number i, whose handling the log records.
LinesHandled(log, i) == log[CHOOSE x \in EventsOf(log, "handle", i) : TRUE][3]
\* A text is one line: it ends with its only newline.
IsOneLine(text) ==
    /\ text # <<>>
    /\ text[Len(text)] = NL
    /\ \A k \in 1..(Len(text) - 1) : text[k] # NL

\* C15: when the server handles a command [c, id, m, args..., e] and id is
\* registered with an object that has method m, it calls m once with the
\* decoded arguments in order (m(4) for the argument line i4); the success
\* reply is `!yv` when the method returned null and `!y` followed by the
\* encoded result otherwise, and for a null, integer or string result the
\* reply decodes to the value the method returned; when id is not registered
\* the reply is one error line and no method is called.
C15_CallbackCall ==
    [][ /\ \A x \in (Len(cbLog) + 1)..Len(cbLog') :
              (/\ cbLog'[x][1] = "handle"
               /\ cbLog'[x][3][1] = <<"c">>
               /\ Len(cbLog'[x][3]) >= 4) =>
                 LET i == cbLog'[x][2]
                     lines == cbLog'[x][3]
                     calls == EventsOf(cbLog', "invoke", i)
                     replies == EventsOf(cbLog', "reply", i)
                 IN  IF lines[2] \in DOMAIN cbPool
                     THEN IsMethod(lines[3]) =>
                            /\ Cardinality(calls) = 1
                            /\ \A c \in calls :
                                  /\ cbLog'[c][3][1] = lines[2]
                                  /\ cbLog'[c][3][2] = lines[3]
                                  /\ Len(cbLog'[c][3][3]) = Len(lines) - 4
                                  /\ lines[4] = <<"i", "4">> =>
                                        cbLog'[c][3][3][1] = IntValue(4)
                     ELSE /\ calls = {}
                          /\ cbSocket = "open" => Cardinality(replies) = 1
                          /\ \A z \in replies :
                                /\ StartsWith(cbLog'[z][3], <<RETURN_MESSAGE, ERROR>>)
                                /\ IsOneLine(cbLog'[z][3])
        /\ \A i \in 1..cbHandled' : Cardinality(EventsOf(cbLog', "invoke", i)) <= 1
        /\ \A z \in (Len(cbLog) + 1)..Len(cbLog') :
              (/\ cbLog'[z][1] = "reply"
               /\ LinesHandled(cbLog', cbLog'[z][2])[1] = <<"c">>
               /\ StartsWith(cbLog'[z][3], <<RETURN_MESSAGE, SUCCESS>>)) =>
                 LET text == cbLog'[z][3] IN
                 /\ Cardinality(EventsOf(cbLog', "invoke", cbLog'[z][2])) = 1
                 /\ IsOneLine(text)
                 /\ (retValue = NullValue) <=>
                        (text = <<RETURN_MESSAGE, SUCCESS, VOID_TYPE, NL>>)
                 /\ retValue[1] = "int" =>
                        text = <<RETURN_MESSAGE, SUCCESS, INTEGER_TYPE>>
                                   \o NatToText(retValue[2]) \o <<NL>>
                 /\ retValue[1] = "proxy" =>
                        StartsWith(text, <<RETURN_MESSAGE, SUCCESS, PYTHON_PROXY_TYPE>>)
                 /\ retValue[1] = "str" =>
                        StartsWith(text, <<RETURN_MESSAGE, SUCCESS, STRING_TYPE>>)
                 /\ retValue[1] \in {"null", "int", "str"} =>
                        decodeReturnValue(Front(text), cbPool') = retValue
      ]_vars


\* C16: when the server handles a command [g, id, e], the registry does not
\* contain id afterwards, registered before or not, every other entry is as
\* it was (so a registry without id is left unchanged), and the reply is `!yv`.
C16_CollectRemoves ==
    [][ \A x \in (Len(cbLog) + 1)..Len(cbLog') :
          (/\ cbLog'[x][1] = "handle"
           /\ cbLog'[x][3][1] = <<"g">>
           /\ Len(cbLog'[x][3]) = 3) =>
             LET id == cbLog'[x][3][2]
                 replies == EventsOf(cbLog', "reply", cbLog'[x][2])
             IN  /\ id \notin DOMAIN cbPool'
                 /\ DOMAIN cbPool' = DOMAIN cbPool \ {id}
                 /\ \A other \in DOMAIN cbPool' : cbPool'[other] = cbPool[other]
                 /\ id \notin DOMAIN cbPool => cbPool' = cbPool
                 /\ cbCounter' = cbCounter
                 /\ cbSocket = "open" => Cardinality(replies) = 1
                 /\ \A z \in replies :
                       cbLog'[z][3] = <<RETURN_MESSAGE, SUCCESS, VOID_TYPE, NL>>
      ]_vars

\* The server collected p0 while p1 was registered: p1 is still there with
\* its object, and the command got `!yv`.
C16_Witness ==
    /\ DOMAIN cbPool = {ProxyId(1)}
    /\ cbPool[ProxyId(1)] = 2
    /\ \E i \in 1..cbHandled :
          /\ LinesHandled(cbLog, i) = <<<<"g">>, ProxyId(0), <<END>>>>
          /\ \E z \in EventsOf(cbLog, "reply", i) :
                cbLog[z][3] = <<RETURN_MESSAGE, SUCCESS, VOID_TYPE, NL>>


\* The places of the log where the server removed id from the registry.
Removals(log, id) ==
    {x \in 1..Len(log) : /\ log[x][1] = "handle"
                         /\ log[x][3][1] = <<"g">>
                         /\ log[x][3][2] = id}

\* C17: every id that register() returned, called from outside or by the
\* encoder for a callback-proxy value, has the form p<n> and differs from
\* every id returned before, removed since or not; from its registration
\* until its removal the id maps to the object registered with it, and the
\* registry holds no other ids.
C17_IdsNeverReused ==
    LET regs == Registrations(cbLog) IN
    /\ \A x \in regs : \E n \in 0..9 : cbLog[x][2] = ProxyId(n)
    /\ \A x, y \in regs : x < y => cbLog[x][2] # cbLog[y][2]
    /\ \A x \in regs :
          (\A r \in Removals(cbLog, cbLog[x][2]) : r < x) =>
              /\ cbLog[x][2] \in DOMAIN cbPool
              /\ cbPool[cbLog[x][2]] = cbLog[x][3]
    /\ \A id \in DOMAIN cbPool :
          \E x \in regs : /\ cbLog[x][2] = id
                          /\ \A r \in Removals(cbLog, id) : r < x

\* p0 was registered and removed, and the encoder registered the next object
\* afterwards: it got the id p1.
C17_Witness ==
    \E x, y \in Registrations(cbLog) :
        /\ x < y
        /\ cbLog[x][2] = ProxyId(0)
        /\ cbLog[y][2] = ProxyId(1)
        /\ \E r \in Removals(cbLog, ProxyId(0)) : x < r /\ r < y
        /\ DOMAIN cbPool = {ProxyId(1)}

\* C18: a callback server configured with port 0 calls listen with port 0,
\* so that an ephemeral port is bound; once start() has resolved its port
\* field holds the port the socket is bound to, and that port is not the
\* default port 25334.
C18_PortZeroIsEphemeral ==
    (srvOption = 0 /\ srvStarts = 1) =>
        /\ srvListenArg = 0
        /\ srvServer = "listening" =>
              /\ srvPort = srvBound
              /\ srvBound # DEFAULT_CALLBACK_PORT

\* What reading _targetId on the proxy gives.
ReadTargetId == Get(pxKind, pxOwn, pxTargetId, "_targetId")

\* C19: in every state of a proxy of every kind, whatever was assigned to
\* its properties, reading _targetId gives the id the proxy was created
\* with, and every command sent for the proxy has that id as its target.
C19_TargetIdNeverChanges ==
    pxKind \in ProxyKinds =>
        /\ ReadTargetId = StrOf(pxTargetId)
        /\ \A i \in 1..Len(pxSent) : pxSent[i].target = pxTargetId

\* C20: every assignment to a property of an object proxy raises the error
\* that names setField and the property, sends no command and leaves the
\* properties of the proxy as they were.
C20_AssignmentRefused ==
    [][\A prop \in PxProps, value \in AssignValues :
          (pxKind = "object" /\ PxAssign(prop, value)) =>
              /\ pxResult' = SetFieldError(prop)
              /\ pxSent' = pxSent
              /\ pxOwn' = pxOwn]_vars

\* The fields createJavaClass declares on its target.
ClassFields == {"_fqn", "_targetId", "_gatewayClient", "_isJavaClass"}

\* C21: reading from a class proxy of fqn a property p that is neither
\* `then` nor a declared field gives the callable that performs
\* callMethod("z:" + fqn, p, args), never a property of the function the
\* proxy is built on (toString, name, length and the like).
C21_ClassReadsAreStaticCalls ==
    (/\ pxKind = "class"
     /\ pxOwn = OwnAtCreation("class", pxTargetId)
     /\ pxResult[1] = "read"
     /\ pxResult[2] \notin ClassFields \cup {"then"}) =>
        pxResult[3] = CallableOf(STATIC_PREFIX \o FqnOf(pxTargetId),
                                 pxResult[2])

\* The name starts with an upper-case letter.
StartsUpperCase(prop) == \E l \in Letters : l[2] = FirstChar(prop)

\* C22: reading from a package proxy named f a property p that is neither
\* `then` nor a declared field (_fqn, _isJavaPackage) gives a proxy whose
\* _fqn is f + "." + p, a class proxy when p starts with an upper-case
\* letter and a package proxy otherwise, at every depth of a chain.
C22_PackageReadsExtendTheName ==
    [][\A prop \in VwProps \ {"then", "_fqn", "_isJavaPackage"} :
          (/\ vwHeld[1] = "proxy"
           /\ vwHeld[2] = "package"
           /\ VwRead(prop)) =>
              vwHeld' = IF StartsUpperCase(prop)
                        THEN ClassProxyOf(vwHeld[3] \o "." \o prop)
                        ELSE PackageProxyOf(vwHeld[3] \o "." \o prop)]_vars

\* What reading the property `prop` on the view gives under `imports`.
ViewReads(imports, prop) == ViewGet(ViewOwn(DEFAULT_JVM_ID), imports, prop)

\* The answer is a success: its response code is `y`.
IsSuccess(answer) == Len(answer) >= 2 /\ answer[1] = "!" /\ answer[2] = "y"

\* The call that the next answer belongs to is `op` of `fqn`.
Resuming(op, fqn) == vwPending # <<>> /\ Head(vwPending) = <<op, fqn>>

\* C23: when javaImport(fqn) gets a success and the last part s of fqn is
\* not `*`, reading s on the view gives the class proxy of fqn, and keeps
\* giving it until an import or removal of the same simple name resumes;
\* on any other answer javaImport raises and leaves the shortcuts as they
\* were; an import ending in `*` adds no shortcut.
C23_ImportRegistersShortcut ==
    [][/\ \A fqn \in ImportNames, answer \in ViewAnswers :
             (Resuming("import", fqn) /\ VwAnswer(answer)) =>
                 /\ (IsSuccess(answer) /\ SimpleName(fqn) # "*") =>
                        ViewReads(vwImports', SimpleName(fqn))
                            = ClassProxyOf(fqn)
                 /\ ~IsSuccess(answer) =>
                        /\ vwResult' = <<"thrown", fqn>>
                        /\ vwImports' = vwImports
                 /\ SimpleName(fqn) = "*" => vwImports' = vwImports
       /\ \A name \in Segments :
             (~\E fqn \in ImportNames :
                  /\ SimpleName(fqn) = name
                  /\ Resuming("import", fqn) \/ Resuming("remove", fqn)) =>
                 ViewReads(vwImports', name) = ViewReads(vwImports, name)
      ]_vars

\* The command sent for the call that the next answer belongs to.
ResumingCommand == vwSent[Len(vwSent) - Len(vwPending) + 1]

\* C24: removeImport(fqn) sends the `j` command with sub-command `r`; on a
\* success it removes the shortcut of the last part of fqn; on any other
\* answer it raises and leaves the shortcuts as they were.
C24_RemoveImportMirrorsImport ==
    [][\A fqn \in ImportNames, answer \in ViewAnswers :
          (Resuming("remove", fqn) /\ VwAnswer(answer)) =>
              /\ ResumingCommand = <<"j", "r", DEFAULT_JVM_ID, fqn, "e">>
              /\ IsSuccess(answer) =>
                     vwImports' = MapDelete(vwImports, SimpleName(fqn))
              /\ ~IsSuccess(answer) =>
                     /\ vwResult' = <<"thrown", fqn>>
                     /\ vwImports' = vwImports]_vars

\* C25: on a proxy of every kind, in every state its properties can be
\* brought to, reading `then` gives undefined.
C25_ThenIsAbsent ==
    pxKind \in AllKinds =>
        Get(pxKind, pxOwn, pxTargetId, "then") = UndefinedValue

\* The text holds a backslash that starts neither backslash-backslash nor
\* backslash-n, reading the escapes from the left.
RECURSIVE HasOtherEscape(_)
HasOtherEscape(text) ==
    IF text = <<>> THEN FALSE
    ELSE IF Head(text) # BS THEN HasOtherEscape(Tail(text))
    ELSE IF Len(text) = 1 THEN TRUE
    ELSE IF text[2] \in {BS, "n"} THEN HasOtherEscape(Drop(text, 2))
    ELSE TRUE

\* C26: unescapeNewLines returns a string only for an input whose escapes
\* are all backslash-backslash or backslash-n; for an input with a backslash
\* before any other character, or with a lone backslash at its end, it
\* raises.
C26_OtherEscapesRaise == escPc = "decoded" => ~HasOtherEscape(escIn)

\* The last call was resumed with a response line and has settled.
Answered == gcPc = "settled" /\ gcResult # <<"throws", "Js4JConnectionError">>

\* The response line without its optional leading '!', its response code
\* (the first byte of that, "" when there is none) and what follows the code.
LineBody(answer) ==
    IF answer # <<>> /\ Head(answer) = "!" THEN Tail(answer) ELSE answer
CodeOf(answer) == IF LineBody(answer) = <<>> THEN "" ELSE Head(LineBody(answer))
RemainderOf(answer) ==
    IF LineBody(answer) = <<>> THEN <<>> ELSE Tail(LineBody(answer))

\* What an error payload decodes to: its value, null when it has none.
PayloadValue(payload) ==
    IF payload = <<>> THEN NullValue
    ELSE LET d == decodeTypedValue(payload[1], Tail(payload), <<>>)
         IN  IF IsThrown(d) THEN NullValue ELSE d

\* C27: decodeReturnValue returns a value only for a line whose response
\* code, the first byte after an optional leading '!', is 'y'.  Code 'x'
\* raises Js4JJavaError carrying the raw payload and what the payload
\* decodes to (the proxy of the exception for a reference, null when the
\* payload cannot be decoded), code 'z' raises the fatal Js4JError carrying
\* the remainder, every other code raises an error, and an empty line
\* raises Js4JNetworkError.
C27_OnlySuccessReturns ==
    Answered =>
        /\ gcResult[1] = "returns" => CodeOf(gcAnswer) = "y"
        /\ CodeOf(gcAnswer) = "x" =>
             gcResult = <<"throws", "Js4JJavaError", RemainderOf(gcAnswer),
                          PayloadValue(RemainderOf(gcAnswer))>>
        /\ gcAnswer = <<"!", "x", "r", "o", "0">> =>
             gcResult[4] = <<"javaProxy", "object", <<"o", "0">>>>
        /\ gcAnswer \in {<<"!", "x", "q">>, <<"!", "x">>} => gcResult[4] = NullValue
        /\ CodeOf(gcAnswer) = "z" =>
             gcResult = <<"throws", "Js4JError", "fatal", RemainderOf(gcAnswer)>>
        /\ CodeOf(gcAnswer) \notin {"x", "y", "z"} => gcResult[1] = "throws"
        /\ gcAnswer = <<>> => gcResult = <<"throws", "Js4JNetworkError">>

\* A call settled by an error response whose payload is a reference.
C27_Witness ==
    /\ Answered
    /\ gcAnswer = <<"!", "x", "r", "o", "0">>
    /\ gcResult[2] = "Js4JJavaError"
    /\ gcResult[4] = <<"javaProxy", "object", <<"o", "0">>>>

\* The kind of proxy each reference tag stands for, and the tags of values.
TaggedKind ==
    [tag \in {"r", "l", "h", "a", "t", "g"} |->
        CASE tag = "r" -> "object" [] tag = "l" -> "list" [] tag = "h" -> "set"
          [] tag = "a" -> "map" [] tag = "t" -> "array" [] tag = "g" -> "iterator"]
ValueTags ==
    {"r", "l", "h", "a", "t", "g", "i", "L", "d", "D", "b", "s", "j", "n", "v", "f"}

\* The step that resumes a call with a response line.
AnswerStep == gcPc = "waiting" /\ gcPc' = "settled" /\ Answered'

\* C28: a success response carrying a reference tag yields a newly
\* constructed proxy of exactly the tagged kind whose _targetId is the
\* payload (r object, l list, h set, a map, t array, g iterator); a success
\* response whose tag is no value tag raises a decode error and constructs
\* no proxy.
C28_ReferenceYieldsTaggedProxy ==
    [][ (AnswerStep /\ CodeOf(gcAnswer') = "y" /\ RemainderOf(gcAnswer') # <<>>) =>
          LET tag == Head(RemainderOf(gcAnswer'))
              payload == Tail(RemainderOf(gcAnswer'))
          IN  /\ tag \in DOMAIN TaggedKind =>
                   /\ gcResult' = <<"returns", <<"javaProxy", TaggedKind[tag], payload>>>>
                   /\ gcProxies' = Append(gcProxies, gcResult'[2])
              /\ tag \notin ValueTags =>
                   /\ gcResult'[1] = "throws"
                   /\ gcResult'[2] = "Js4JError"
                   /\ gcProxies' = gcProxies ]_vars

\* Two calls answered with the same set reference: each made its own proxy.
C28_Witness ==
    /\ Answered
    /\ gcAnswer = <<"!", "y", "h", "o", "5">>
    /\ gcResult = <<"returns", <<"javaProxy", "set", <<"o", "5">>>>>>
    /\ Len(gcProxies) = 2
    /\ gcProxies[1] = gcProxies[2]

\* The lines of a command: each is followed by one newline.
RECURSIVE Terminated(_)
Terminated(lines) ==
    IF lines = <<>> THEN <<>>
    ELSE Head(lines) \o <<"\n">> \o Terminated(Tail(lines))

\* The callback proxies among arguments, and the encoded part of argument
\* k of a call that was sent, without the newline that ends it: a callback
\* proxy carries the id the pool gave it, the counter having advanced by one
\* for it and for each proxy after it.
NumProxies(args) == Cardinality({k \in DOMAIN args : args[k] = ProxyValue})
PartAt(args, k) ==
    Front(encodeCommandPart(args[k],
              ProxyId(gcCounter - NumProxies(SubSeq(args, k, Len(args))))))
HasNewline(text) == \E k \in DOMAIN text : text[k] = "\n"

\* C29: callMethod(target, method, args) sends exactly the lines 'c', target,
\* method, one encoded part per argument in argument order, and 'e', each
\* terminated by one newline, and returns the decoded reply: add(3, 4) on
\* the entry point sends c\nt\nadd\ni3\ni4\ne\n, and the reply !yi7
\* returns 7.
C29_CallMethodCommand ==
    (gcPc \in {"waiting", "settled"} /\ gcCall[1] = "callMethod") =>
        LET args == gcCall[4] IN
        /\ gcSent = Terminated(<<<<"c">>, gcCall[2], gcCall[3]>>
                        \o [k \in 1..Len(args) |-> PartAt(args, k)]
                        \o <<<<"e">>>>)
        /\ \A k \in 1..Len(args) : ~HasNewline(PartAt(args, k))
        /\ Answered => gcResult = Settled(decodeReturnValue(gcAnswer, <<>>))
        /\ gcCall = <<"callMethod", <<"t">>, <<"a", "d", "d">>,
                      <<IntValue(3), IntValue(4)>>>> =>
             /\ gcSent = <<"c", "\n", "t", "\n", "a", "d", "d", "\n",
                           "i", "3", "\n", "i", "4", "\n", "e", "\n">>
             /\ (Answered /\ gcAnswer = <<"!", "y", "i", "7">>) =>
                    gcResult = <<"returns", IntValue(7)>>

\* add(3, 4) on the entry point was answered with !yi7 and returned 7.
C29_Witness ==
    /\ gcCall = <<"callMethod", <<"t">>, <<"a", "d", "d">>, <<IntValue(3), IntValue(4)>>>>
    /\ Answered
    /\ gcAnswer = <<"!", "y", "i", "7">>
    /\ gcResult = <<"returns", IntValue(7)>>

\* The call new java.lang.StringBuilder("hi") and the command it is to send.
StringBuilderCall ==
    <<"callConstructor", StringBuilderFqn, <<StrValue(<<"h", "i">>)>>>>
StringBuilderCommand ==
    <<"i", "\n">> \o StringBuilderFqn \o <<"\n", "s", "h", "i", "\n", "e", "\n">>
ObjectO5 == <<"returns", <<"javaProxy", "object", <<"o", "5">>>>>>

\* C30 as stated: constructing java.lang.StringBuilder("hi") sends
\* i\njava.lang.StringBuilder\nshi\ne\n, and on the reply !ro5 the client
\* returns an object proxy whose _targetId is "o5".
C30_ReplyWithoutCode ==
    (gcPc \in {"waiting", "settled"} /\ gcCall = StringBuilderCall) =>
        /\ gcSent = StringBuilderCommand
        /\ (Answered /\ gcAnswer = <<"!", "r", "o", "5">>) => gcResult = ObjectO5

\* C30: constructing java.lang.StringBuilder("hi") sends
\* i\njava.lang.StringBuilder\nshi\ne\n, and on the reply !yro5, the
\* reference behind the response code 'y', the client returns an object
\* proxy whose _targetId is "o5".
C30_ConstructorCommand ==
    (gcPc \in {"waiting", "settled"} /\ gcCall = StringBuilderCall) =>
        /\ gcSent = StringBuilderCommand
        /\ (Answered /\ gcAnswer = <<"!", "y", "r", "o", "5">>) => gcResult = ObjectO5

\* The constructor call was answered with !yro5 and returned the proxy of o5.
C30_Witness ==
    /\ gcCall = StringBuilderCall
    /\ gcSent = StringBuilderCommand
    /\ Answered
    /\ gcAnswer = <<"!", "y", "r", "o", "5">>
    /\ gcResult = ObjectO5

\* An integer given by its sign and digits lies in the signed 64-bit range;
\* its base-10 digits; the line sent for argument k of a callMethod.
InInt64(neg, mag) ==
    IF neg THEN ~LessText(Int64MaxPlus1, mag) ELSE LessText(mag, Int64MaxPlus1)
DigitsOf(neg, mag) == (IF neg THEN <<"-">> ELSE <<>>) \o mag
CallSent == gcPc \in {"waiting", "settled"} /\ gcCall[1] = "callMethod"
SentPart(k) == LineOf(gcSent, 3 + k)

\* C31 as stated: for every integer-valued native number v passed as an
\* argument, the part sent carries tag `i` with the base-10 digits of v
\* exactly when -2^31 <= v <= 2^31 - 1, and tag `L` with the base-10
\* digits of v when v is outside that range but inside the signed 64-bit
\* range.
C31_IntegerTagAndDigits ==
    CallSent =>
        \A k \in DOMAIN gcCall[4] :
            LET v == gcCall[4][k] IN
            (v[1] = "number" /\ InInt64(v[2], v[3])) =>
                /\ SentPart(k)[1] = (IF InInt32(v[2], v[3]) THEN "i" ELSE "L")
                /\ Tail(SentPart(k)) = DigitsOf(v[2], v[3])

\* C32: releaseObject(targetId) and shutdownGateway() are best effort:
\* however the withConnection call behind them ends (the connect failed,
\* the connection was closed or the response was lost and sendCommand
\* rejected, or it resolved), each of them resolves, and the caller holds no
\* connection afterwards: the active count is the number of callers that
\* still hold one.
C32_BestEffort ==
    [][ \A p \in DOMAIN pc :
           (pc[p] \in {"holding", "connecting"} /\ pc'[p] = "out") =>
               /\ lastOutcome' \in {"resolved", "rejected", "acquireFailed"}
               /\ pc[p] = "connecting" => lastOutcome' = "acquireFailed"
               /\ releaseObject(lastOutcome') = "resolved"
               /\ shutdownGateway(lastOutcome') = "resolved"
               /\ held'[p] = NoConn
               /\ active' = Cardinality(Holders')
      ]_vars

\* A call whose connect failed and a call whose sendCommand rejected have
\* both ended, and no connection is counted as active.
C32_Witness ==
    /\ lastOutcome = "rejected"
    /\ \E c \in DOMAIN conns : conns[c] = "dead" /\ \A p \in DOMAIN held : held[p] # c
    /\ \A p \in DOMAIN pc : pc[p] = "out"
    /\ active = 0
    /\ nAcquires >= 2

\* An argument that is an integer, native or bigint, outside the signed
\* 64-bit range.
BeyondInt64(v) == v[1] \in {"number", "bigint"} /\ ~InInt64(v[2], v[3])

\* C33 as stated: a call with an integer argument outside the signed 64-bit
\* range, native number or bigint, is rejected by the encoder with an
\* error, and no command (so no `L` part) is sent.
C33_BeyondInt64Rejected ==
    (gcCall # <<"none">> /\ \E k \in DOMAIN gcCall[4] : BeyondInt64(gcCall[4][k])) =>
        /\ gcPc = "threw"
        /\ IsThrown(gcResult)
        /\ gcSent = <<>>

\* C38 as stated: when encoding the arguments of a call fails, no command
\* is sent and the proxy pool is as it was before the call: no callback
\* proxy was registered and the id counter did not advance.
C38_FailedEncodingLeavesPool ==
    [][ \A args \in ArgLists :
           (GcCallOnce(args) /\ gcPc' = "threw") =>
               /\ gcSent' = <<>>
               /\ gcPool' = gcPool
               /\ gcCounter' = gcCounter
      ]_vars

\* The number of complete commands among the bytes received so far.
NumReceived == Len(CommandsOf(LinesOf(cbReceived)))

\* C34 as stated: every complete command received on a callback connection
\* is eventually handled, without further data from the host, also when
\* several complete commands arrive in one chunk: when the bytes received
\* hold k complete commands, k commands come to be handled.
C34_CompleteCommandsHandled ==
    \A k \in 1..MaxHostCmds : (NumReceived >= k) ~> (cbHandled >= k)

\* The replies written for command i, and the commands of type c or g whose
\* handling has ended.
RepliesTo(i) == {x \in ReplyEvents : cbLog[x][2] = i}
CallsAndCollectsDone ==
    {i \in 1..cbHandled :
        /\ i \notin cbPending
        /\ \E x \in HandleEvents :
              cbLog[x][2] = i /\ cbLog[x][3][1] \in {<<"c">>, <<"g">>}}
RepliesAreLines ==
    \A x \in ReplyEvents :
        /\ Cardinality(NewlinesOf(cbLog[x][3])) = 1
        /\ Last(cbLog[x][3]) = NL
OneReplyEach ==
    /\ \A i \in 1..cbHandled : Cardinality(RepliesTo(i)) <= 1
    /\ cbSocket = "open" => \A i \in CallsAndCollectsDone : Cardinality(RepliesTo(i)) = 1
ErrorReplies == {x \in ReplyEvents : cbLog[x][3][2] = ERROR}

\* C37 as stated: for every c or g command handled on an open connection
\* the callback server writes exactly one reply, every reply has exactly
\* one newline, at its end, whatever a failed call was rejected with, and
\* the connection is open after an error reply is written.
C37_OneSingleLineReply ==
    [][ /\ RepliesAreLines'
        /\ OneReplyEach'
        /\ ErrorReplies' # ErrorReplies => cbSocket' = "open"
      ]_vars

\* The connections on the idle list.
IdleConns == {idle[x] : x \in DOMAIN idle}

\* C35: a connection is never held by two callers at the same time and is
\* never both idle and held, and no connection is twice on the idle list:
\* a connection handed out by acquire() or handed to a waiter by release()
\* is given to no other caller until it is released.
C35_ExclusiveHold ==
    /\ \A p, q \in Holders : p # q => held[p] # held[q]
    /\ \A p \in Holders : held[p] # NoConn /\ held[p] \notin IdleConns
    /\ \A x, y \in DOMAIN idle : x # y => idle[x] # idle[y]

\* A caller holds a connection handed over by release() while another
\* caller holds a second connection that it opened.
C35_Witness ==
    \E p, q \in Holders :
        /\ p # q
        /\ via[p] = "handover"
        /\ via[q] = "new"
        /\ held[p] # held[q]

\* C36 as stated: every connection that acquire() resolves with is live
\* (isConnected) at the moment it is handed to the caller, whether it comes
\* from the idle set, is newly opened, or is handed over by release() to a
\* parked waiter.
C36_HandedOutLive ==
    [][ \A p \in DOMAIN pc :
           (pc[p] # "holding" /\ pc'[p] = "holding") => conns'[held'[p]] = "live"
      ]_vars

\* The tasks being executed, and the tasks that were started.
Executing == {k \in DOMAIN rqTask : rqTask[k] = "executing"}
WasStarted(k) == \E x \in DOMAIN rqStarted : rqStarted[x] = k

\* C39: in a RequestQueue tasks start in the order they were submitted, at
\* most one task is executing at any time, no task waits while _flush is
\* not running, and every submitted task eventually starts unless a task
\* submitted before it is executing for ever: a task that rejects or throws
\* does not keep later tasks from running.
C39_QueueOrderAndProgress ==
    /\ [](\A x, y \in DOMAIN rqStarted : x < y => rqStarted[x] < rqStarted[y])
    /\ [](Cardinality(Executing) <= 1)
    /\ [](\A k \in DOMAIN rqTask : rqTask[k] = "queued" => rqRunning /\ ~WasStarted(k))
    /\ \A k \in Tasks :
          (rqTask[k] = "queued") ~>
              (WasStarted(k) \/ [](\E j \in 1..(k - 1) : rqTask[j] = "executing"))

\* Three tasks were started in the order of their submission; the first
\* rejected, the second threw, and the third is executing.
C39_Witness ==
    /\ rqStarted = <<1, 2, 3>>
    /\ rqTask[1] = "rejected" /\ rqKind[1] = "async"
    /\ rqTask[2] = "rejected" /\ rqKind[2] = "throws"
    /\ rqTask[3] = "executing"

\* C40: every caller parked in the waiter queue is eventually resolved with
\* a connection, every holder releasing in the end; no release is lost
\* while a waiter is parked: a release made with callers parked hands the
\* connection to one of them and keeps it off the idle list, and while
\* callers are parked the pool is at its bound, so a holder exists whose
\* release will come.
C40_WaitersResolved ==
    /\ [](waiters # <<>> => (active >= maxConnections /\ Holders # {}))
    /\ [][ \A p \in DOMAIN pc :
              (pc[p] = "holding" /\ pc'[p] = "out" /\ waiters # <<>>) =>
                  /\ Len(waiters') = Len(waiters) - 1
                  /\ \E w \in DOMAIN pc :
                        /\ pc[w] = "parked"
                        /\ pc'[w] = "holding"
                        /\ held'[w] = held[p]
                  /\ idle' = idle
         ]_vars
    /\ \A p \in Callers : (pc[p] = "parked") ~> (pc[p] = "holding")

\* A caller that was parked behind another parked caller holds the
\* connection now: two releases reached the waiter queue.
C40_Witness ==
    \E p, q \in DOMAIN pc :
        /\ p # q
        /\ parkedAt[p] > 0 /\ parkedAt[q] > parkedAt[p]
        /\ via[q] = "handover"
        /\ waiters = <<>>

=============================================================================
